---- MODULE Spec2Model ----
(***************************************************************************)
(* Model of the cascading command stream generator of the Ethos-N support  *)
(* library: CascadingCommandStreamGenerator::Generate (the dependency      *)
(* builder and the intermediate buffer lifetimes), the scheduler that      *)
(* linearises the agents into four command queues, the execution of those  *)
(* queues by the hardware, and the binary/XML command stream codec.        *)
(*                                                                         *)
(* Agent ids are zero based as in the source; agent id a is element a + 1  *)
(* of m_CommandStreamAgents.  Op and buffer handles are 1-based indices    *)
(* into the op graph; 0 stands for nullptr.                                *)
(***************************************************************************)
EXTENDS Integers, Sequences, FiniteSets, TLC

\* ------------------------------------------------------------------------
\* Bounds of the model
\* ------------------------------------------------------------------------
MaxSections == 2
MaxLayers == 2
MaxStripes == 2
MaxAgents == 2
MaxCommands == 2

\* ------------------------------------------------------------------------
\* Program constants
\* ------------------------------------------------------------------------
g_MaxRelativeAgentPosition == 255
RelativeAgentIdRange == 256
\* std::numeric_limits<size_t>::max(), as the largest integer of the model.
SizeMax == 2147483647

Null == 0

Min(a, b) == IF a < b THEN a ELSE b
Max(a, b) == IF a > b THEN a ELSE b
DivRoundUp(a, b) == (a + b - 1) \div b

\* ------------------------------------------------------------------------
\* The operation graph handed to the generator (m_MergedOpGraph)
\* ------------------------------------------------------------------------
NumStripes(w, h, c) == [width |-> w, height |-> h, channels |-> c]

\* Height of the tensors of the graph, in rows; a buffer split in n stripes
\* has stripes of TensorHeight \div n rows.
TensorHeight == 12

MkBuffer(loc, btype, fmt, n) ==
    [m_Location |-> loc, m_BufferType |-> btype, m_Format |-> fmt,
     numStripes |-> NumStripes(1, n, 1), stripeHeight |-> TensorHeight \div n]

MkOp(kind, inputs, output, n, layer) ==
    [kind |-> kind, inputs |-> inputs, output |-> output,
     numStripes |-> NumStripes(1, n, 1),
     m_LoadKernel |-> layer.load, m_PleKernelId |-> layer.kernel,
     m_Op |-> layer.op, filterHeight |-> layer.filter]

NoLayer == [kind |-> "none", n |-> 1, load |-> FALSE, kernel |-> 0, op |-> "NONE", filter |-> 1]

Layers(kinds, stripes, loads, pleOps, filters) ==
    [kind : kinds, n : stripes, load : loads, kernel : {1}, op : pleOps, filter : filters]

IsFullTensor(b) ==
    \/ b.m_Location = "Dram"
    \/ b.m_Location = "Sram" /\ b.numStripes.width * b.numStripes.height * b.numStripes.channels = 1

\* Appends the ops and buffers of one layer to the graph g; g.tail is the
\* SRAM buffer holding the feature map produced so far.
AddLayer(g, l) ==
    LET nb == Len(g.bufs)
    IN IF l.kind = "mce"
       THEN [ops |-> g.ops \o
                 << MkOp("DmaOp", <<nb + 1>>, nb + 2, 1, NoLayer),
                    MkOp("MceOp", <<g.tail, nb + 2>>, nb + 3, l.n, l),
                    MkOp("PleOp", <<nb + 3>>, nb + 4, l.n, l) >>,
             bufs |-> g.bufs \o
                 << MkBuffer("Dram", "ConstantDma", "WEIGHT", 1),
                    MkBuffer("Sram", "None", "WEIGHT", 1),
                    MkBuffer("PleInputSram", "None", "NHWCB", l.n),
                    MkBuffer("Sram", "None", "NHWCB", l.n) >>,
             tail |-> nb + 4, dram |-> g.dram]
       ELSE IF l.kind = "ple"
       THEN [ops |-> Append(g.ops, MkOp("PleOp", <<g.tail>>, nb + 1, l.n, l)),
             bufs |-> Append(g.bufs, MkBuffer("Sram", "None", "NHWCB", l.n)),
             tail |-> nb + 1, dram |-> g.dram]
       ELSE [ops |-> Append(g.ops, MkOp("EstimateOnlyOp", <<g.tail>>, nb + 1, l.n, l)),
             bufs |-> Append(g.bufs, MkBuffer("Sram", "None", "NHWCB", l.n)),
             tail |-> nb + 1, dram |-> g.dram]

RECURSIVE AddLayers(_, _)
AddLayers(g, ls) ==
    IF ls = << >> THEN g
    ELSE LET next == AddLayer(g, Head(ls))
         IN IF next.tail = Null THEN next ELSE AddLayers(next, Tail(ls))

\* One section: a load from DRAM, the layers, and a store to DRAM.  The SRAM
\* buffer that is stored has s.ofm stripes, which may differ from the stripes
\* of the PLE op that writes it.
AddSection(g, s, last) ==
    LET nb == Len(g.bufs)
        g1 == [ops |-> Append(g.ops, MkOp("DmaOp", <<g.dram>>, nb + 1, 1, NoLayer)),
               bufs |-> Append(g.bufs, MkBuffer("Sram", "None", "NHWCB", s.ifm)),
               tail |-> nb + 1, dram |-> g.dram]
        g2 == AddLayers(g1, s.layers)
        nb2 == Len(g2.bufs)
        bufs2 == IF s.layers = << >> THEN g2.bufs
                 ELSE [g2.bufs EXCEPT ![g2.tail] = MkBuffer("Sram", "None", "NHWCB", s.ofm)]
    IN [ops |-> Append(g2.ops, MkOp("DmaOp", <<g2.tail>>, nb2 + 1, 1, NoLayer)),
        bufs |-> Append(bufs2,
                    MkBuffer("Dram", IF last THEN "Output" ELSE "Intermediate", "NHWCB", 1)),
        tail |-> Null, dram |-> nb2 + 1]

RECURSIVE AddSections(_, _)
AddSections(g, ss) ==
    IF ss = << >> THEN g
    ELSE AddSections(AddSection(g, Head(ss), Len(ss) = 1), Tail(ss))

MkGraph(ss) ==
    LET g0 == [ops |-> << >>, bufs |-> << MkBuffer("Dram", "Input", "NHWCB", 1) >>,
               tail |-> Null, dram |-> 1]
        g == AddSections(g0, ss)
    IN [ops |-> g.ops, bufs |-> g.bufs]

MkSection(ifm, layers, ofm) == [ifm |-> ifm, layers |-> layers, ofm |-> ofm]

SeqsUpTo(S, n) == UNION { [1..k -> S] : k \in 0..n }

\* Accessors of OpGraph
GetInputs(graph, op) == graph.ops[op].inputs
GetOutput(graph, op) == graph.ops[op].output
GetProducers(graph, b) == { o \in 1..Len(graph.ops) : graph.ops[o].output = b }
GetConsumers(graph, b) ==
    { o \in 1..Len(graph.ops) : \E i \in 1..Len(graph.ops[o].inputs) : graph.ops[o].inputs[i] = b }
GetSingleProducer(graph, b) ==
    IF GetProducers(graph, b) = {} THEN Null ELSE CHOOSE o \in GetProducers(graph, b) : TRUE
GetConsumer(graph, b) ==
    IF GetConsumers(graph, b) = {} THEN Null
    ELSE CHOOSE o \in GetConsumers(graph, b) : \A o2 \in GetConsumers(graph, b) : o <= o2

\* ------------------------------------------------------------------------
\* Agents and dependencies
\* ------------------------------------------------------------------------
Ratio(other, self) == [other |-> other, self |-> self]

EmptyDependency ==
    [relativeAgentId |-> 0, outerRatio |-> Ratio(0, 0), innerRatio |-> Ratio(0, 0), boundary |-> 0]

EmptyDependencyInfo ==
    [readDependencies |-> << >>, writeDependencies |-> << >>, scheduleDependencies |-> << >>]

\* AgentDesc: numStripes holds ifm/ofm/pleS numStripes, or for the MCE
\* scheduler ofmWidth, ofmHeight and ofmChannels; ifmChannels is
\* mce.numStripes.ifmChannels.
AgentDesc(type, numStripesTotal, numStripes, stripeHeight, op) ==
    [type |-> type, numStripesTotal |-> numStripesTotal, numStripes |-> numStripes,
     ifmChannels |-> 1, stripeHeight |-> stripeHeight,
     mceOpMode |-> "CONVOLUTION", filterHeight |-> op.filterHeight,
     pleKernelId |-> op.m_PleKernelId]

AgentDescAndDeps(agent) == [agent |-> agent, deps |-> EmptyDependencyInfo]

GetNumStripesTotal(ns) == ns.width * ns.height * ns.channels

\* std::map::operator[]: a missing key is inserted with value 0.
MapLookup(m, k) == IF k \in DOMAIN m THEN m[k] ELSE 0
MapTouch(m, k) == IF k \in DOMAIN m THEN m ELSE m @@ (k :> 0)
MapStore(m, k, v) == IF k \in DOMAIN m THEN [m EXCEPT ![k] = v] ELSE m @@ (k :> v)

\* ------------------------------------------------------------------------
\* DependencyUtils
\* ------------------------------------------------------------------------
\* Outer ratio between an MCE scheduler and the IFM streamer feeding it: the
\* number of stripes each of them processes in one pass over the input.
CalculateIfmSMceSOuterRatio(mce, ifm) ==
    [mce |-> mce.numStripes.width * mce.numStripes.height * mce.ifmChannels,
     ifm |-> ifm.numStripes.width * ifm.numStripes.height * ifm.numStripes.channels]

\* An MCE stripe needs rows of the neighbouring input stripe when the kernel
\* is taller than one row and the tensor is split in height.
CalculateMceSBoundary(mce) ==
    IF mce.numStripes.height > 1 /\ mce.filterHeight > 1 THEN 1 ELSE 0

\* Fills in the inner ratio a rule left unset, from the outer ratio, rounding
\* the division up.
CalculateInnerRatio(dep) ==
    IF dep.outerRatio.self > dep.outerRatio.other
    THEN [dep EXCEPT !.innerRatio =
            Ratio(IF @.other = 0 THEN 1 ELSE @.other,
                  IF @.self = 0 THEN DivRoundUp(dep.outerRatio.self, dep.outerRatio.other)
                  ELSE @.self)]
    ELSE [dep EXCEPT !.innerRatio =
            Ratio(IF @.other = 0 THEN DivRoundUp(dep.outerRatio.other, dep.outerRatio.self)
                  ELSE @.other,
                  IF @.self = 0 THEN 1 ELSE @.self)]

\* CalculateInnerRatio divides by the smaller outer ratio.
InnerRatioDividesByZero(dep) ==
    IF dep.outerRatio.self > dep.outerRatio.other
    THEN dep.innerRatio.self = 0 /\ dep.outerRatio.other = 0
    ELSE dep.innerRatio.other = 0 /\ dep.outerRatio.self = 0

\* Sets the boundary flag when the stripes of the two agents do not divide
\* evenly and the inner ratio is a proper repeating unit of the outer ratio.
CalculateRemainingAgentDependencies(dep) ==
    LET big == Max(dep.outerRatio.self, dep.outerRatio.other)
        small == Min(dep.outerRatio.self, dep.outerRatio.other)
        uneven == small > 0 /\ big % small # 0
        unit == dep.innerRatio.self < dep.outerRatio.self
                /\ dep.innerRatio.other < dep.outerRatio.other
    IN IF dep.boundary = 0 /\ uneven /\ unit THEN [dep EXCEPT !.boundary = 1] ELSE dep

\* The tail of FillConsumerAgentDependency and FillProducerAgentDependency.
\* r.assertFailed: an assert(false) of the rule table was passed;
\* r.trap: an integer division by zero was executed.
CalculateRemaining(dep, assertFailed) ==
    IF dep.relativeAgentId # 0
    THEN IF InnerRatioDividesByZero(dep)
         THEN [dep |-> dep, assertFailed |-> assertFailed, trap |-> TRUE]
         ELSE [dep |-> CalculateRemainingAgentDependencies(CalculateInnerRatio(dep)),
               assertFailed |-> assertFailed, trap |-> FALSE]
    ELSE [dep |-> dep, assertFailed |-> assertFailed, trap |-> FALSE]

IsMaxPool(graph, producerOp) ==
    /\ producerOp # Null
    /\ graph.ops[producerOp].m_Op \in {"MAXPOOL_3X3_2_2_EVEN", "MAXPOOL_3X3_2_2_ODD"}

\* An integer division by one of the divisors that is zero traps; filled is
\* what the rule computes when none is.
Dividing(divisors, dep, filled) ==
    IF 0 \in divisors THEN [dep |-> dep, assertFailed |-> FALSE, trap |-> TRUE] ELSE filled

\* The producer runs to completion before the first stripe of the consumer.
WholeOperation(dep, consumerAgentNumStripes, producerAgentNumStripes) ==
    [dep EXCEPT !.outerRatio = Ratio(producerAgentNumStripes, consumerAgentNumStripes),
                !.innerRatio = Ratio(producerAgentNumStripes, 1),
                !.boundary = 0]

FillConsumerAgentDependency(dep, consumerAgentType, consumerAgentId, producerAgentType, producerAgentId, producerOp, agents, graph) ==
    LET c == agents[consumerAgentId + 1].agent
        p == agents[producerAgentId + 1].agent
        cN == c.numStripesTotal
        pN == p.numStripesTotal
        Ok(d) == CalculateRemaining(d, FALSE)
        Bad(d) == CalculateRemaining(d, TRUE)
    IN CASE consumerAgentType = "IFM_STREAMER" ->
              IF producerAgentType = "OFM_STREAMER" THEN Ok(WholeOperation(dep, cN, pN))
              ELSE Ok(dep)
         [] consumerAgentType = "WGT_STREAMER" ->
              IF producerAgentType \in {"OFM_STREAMER", "PLE_SCHEDULER"}
              THEN Ok(WholeOperation(dep, cN, pN))
              ELSE Ok(dep)
         [] consumerAgentType = "MCE_SCHEDULER" ->
              IF producerAgentType = "IFM_STREAMER"
              THEN LET outer == CalculateIfmSMceSOuterRatio(c, p)
                       widthRatio == DivRoundUp(c.numStripes.width, p.numStripes.width)
                       heightRatio == DivRoundUp(c.numStripes.height, p.numStripes.height)
                       d == [dep EXCEPT !.outerRatio = Ratio(outer.ifm, outer.mce),
                                        !.innerRatio = Ratio(widthRatio * heightRatio, 1),
                                        !.boundary = CalculateMceSBoundary(c)]
                       asserted == IF c.mceOpMode = "DEPTHWISE_CONVOLUTION"
                                   THEN c.ifmChannels = 1
                                   ELSE c.ifmChannels = p.numStripes.channels
                   IN Dividing({ p.numStripes.width, p.numStripes.height }, dep,
                               IF asserted THEN Ok(d) ELSE Bad(d))
              ELSE IF producerAgentType = "WGT_STREAMER"
              THEN Ok([dep EXCEPT !.outerRatio = Ratio(pN, cN),
                                  !.innerRatio =
                                      IF c.ifmChannels = 1
                                      THEN Ratio(1, c.numStripes.height * c.numStripes.width)
                                      ELSE Ratio(1, 1),
                                  !.boundary = 0])
              ELSE IF producerAgentType = "PLE_SCHEDULER"
              THEN LET widthRatio == DivRoundUp(p.numStripes.width, c.numStripes.width)
                       heightRatio == DivRoundUp(p.numStripes.height, c.numStripes.height)
                       channelRatio == DivRoundUp(p.numStripes.channels, c.numStripes.channels)
                   IN Dividing({ c.numStripes.width, c.numStripes.height, c.numStripes.channels },
                               dep,
                               Ok([dep EXCEPT
                                     !.outerRatio =
                                         Ratio(p.numStripes.height * p.numStripes.width
                                                   * p.numStripes.channels,
                                               c.numStripes.height * c.numStripes.width
                                                   * c.numStripes.channels),
                                     !.innerRatio =
                                         Ratio(widthRatio * heightRatio * channelRatio, 1),
                                     !.boundary = CalculateMceSBoundary(c)]))
              ELSE Bad(dep)
         [] consumerAgentType = "PLE_LOADER" ->
              IF producerAgentType \in {"PLE_SCHEDULER", "OFM_STREAMER"}
              THEN Ok(WholeOperation(dep, cN, pN))
              ELSE Bad(dep)
         [] consumerAgentType = "PLE_SCHEDULER" ->
              IF producerAgentType = "IFM_STREAMER"
              THEN Ok([dep EXCEPT !.outerRatio =
                                      Ratio(p.numStripes.width * p.numStripes.height
                                                * p.numStripes.channels,
                                            c.numStripes.height * c.numStripes.width
                                                * c.numStripes.channels)])
              ELSE IF producerAgentType = "MCE_SCHEDULER"
              THEN LET channelRatio == DivRoundUp(p.numStripes.channels, c.numStripes.channels)
                       xyProducer == p.numStripes.width * p.numStripes.height
                       xyConsumer == c.numStripes.width * c.numStripes.height
                   IN IF xyProducer = 0 \/ c.numStripes.channels = 0
                      THEN [dep |-> dep, assertFailed |-> FALSE, trap |-> TRUE]
                      ELSE Ok([dep EXCEPT !.outerRatio = Ratio(pN, cN),
                                          !.innerRatio = Ratio(channelRatio * p.ifmChannels, 1),
                                          !.boundary =
                                              IF xyConsumer % xyProducer = 0 THEN 0 ELSE 1])
              ELSE IF producerAgentType = "PLE_LOADER"
              THEN Ok([dep EXCEPT !.outerRatio =
                                      Ratio(1, c.numStripes.height * c.numStripes.width
                                                   * c.numStripes.channels)])
              ELSE IF producerAgentType = "PLE_SCHEDULER"
              THEN Ok([dep EXCEPT !.outerRatio = Ratio(1, 1)])
              ELSE Bad(dep)
         [] consumerAgentType = "OFM_STREAMER" ->
              IF producerAgentType = "IFM_STREAMER"
              THEN Ok([dep EXCEPT !.outerRatio = Ratio(1, 1), !.innerRatio = Ratio(1, 1),
                                  !.boundary = 0])
              ELSE IF producerAgentType = "PLE_SCHEDULER"
              THEN IF p.stripeHeight = 0
                   THEN [dep |-> dep, assertFailed |-> FALSE, trap |-> TRUE]
                   ELSE Ok([dep EXCEPT !.outerRatio = Ratio(pN, cN),
                                       !.innerRatio = Ratio(c.stripeHeight \div p.stripeHeight, 1),
                                       !.boundary =
                                           IF IsMaxPool(graph, producerOp) /\ p.numStripes.height > 1
                                           THEN 1 ELSE 0])
              ELSE Bad(dep)
         [] OTHER -> Bad(dep)

WriteIsDropped_Never(dependencyType, consumerAgentNumStripes) == FALSE

\* The PLE scheduler gets no write dependency for an MCE scheduler of one
\* stripe: the dependency's relative agent id is set to 0.
WriteIsDropped(dependencyType, consumerAgentNumStripes) ==
    dependencyType = "Write" /\ consumerAgentNumStripes = 1

\* dependencyType is "Write" or "Schedule".
FillProducerAgentDependency(dep, consumerAgentType, consumerAgentId, producerAgentType, producerAgentId, producerOp, dependencyType, agents, graph) ==
    LET c == agents[consumerAgentId + 1].agent
        p == agents[producerAgentId + 1].agent
        cN == c.numStripesTotal
        pN == p.numStripesTotal
        Ok(d) == CalculateRemaining(d, FALSE)
        Bad(d) == CalculateRemaining(d, TRUE)
    IN CASE consumerAgentType = "IFM_STREAMER" ->
              IF producerAgentType = "OFM_STREAMER"
              THEN Ok([dep EXCEPT !.outerRatio = Ratio(cN, pN), !.innerRatio = Ratio(1, pN),
                                  !.boundary = 0])
              ELSE Ok(dep)
         [] consumerAgentType = "WGT_STREAMER" -> Bad(dep)
         [] consumerAgentType = "MCE_SCHEDULER" ->
              IF producerAgentType = "IFM_STREAMER"
              THEN LET outer == CalculateIfmSMceSOuterRatio(c, p)
                       widthRatio == DivRoundUp(c.numStripes.width, p.numStripes.width)
                       heightRatio == DivRoundUp(c.numStripes.height, p.numStripes.height)
                       d == [dep EXCEPT !.outerRatio = Ratio(outer.mce, outer.ifm),
                                        !.innerRatio = Ratio(1, widthRatio * heightRatio),
                                        !.boundary = CalculateMceSBoundary(c)]
                       asserted == IF c.mceOpMode = "DEPTHWISE_CONVOLUTION"
                                   THEN c.ifmChannels = 1
                                   ELSE p.numStripes.channels = c.ifmChannels
                   IN Dividing({ p.numStripes.width, p.numStripes.height }, dep,
                               IF asserted THEN Ok(d) ELSE Bad(d))
              ELSE IF producerAgentType = "WGT_STREAMER"
              THEN Ok([dep EXCEPT !.outerRatio = Ratio(cN, pN),
                                  !.innerRatio =
                                      IF c.ifmChannels = 1
                                      THEN Ratio(c.numStripes.height * c.numStripes.width, 1)
                                      ELSE Ratio(1, @.self),
                                  !.boundary = 0])
              ELSE IF producerAgentType = "PLE_LOADER"
              THEN LET n == c.numStripes.height * c.numStripes.width * c.ifmChannels
                   IN Ok([dep EXCEPT !.outerRatio = Ratio(n, 1), !.innerRatio = Ratio(n, 1),
                                     !.boundary = 0])
              ELSE IF producerAgentType = "PLE_SCHEDULER"
              THEN IF WriteIsDropped(dependencyType, cN)
                   THEN Ok([dep EXCEPT !.relativeAgentId = 0])
                   ELSE LET widthRatio == DivRoundUp(p.numStripes.width, c.numStripes.width)
                            heightRatio == DivRoundUp(p.numStripes.height, c.numStripes.height)
                            channelRatio ==
                                DivRoundUp(p.numStripes.channels, c.numStripes.channels)
                        IN Dividing(
                               { c.numStripes.width, c.numStripes.height, c.numStripes.channels },
                               dep,
                               Ok([dep EXCEPT
                                     !.outerRatio =
                                         Ratio(c.numStripes.height * c.numStripes.width
                                                   * c.numStripes.channels,
                                               p.numStripes.height * p.numStripes.width
                                                   * p.numStripes.channels),
                                     !.innerRatio =
                                         Ratio(1, widthRatio * heightRatio * channelRatio),
                                     !.boundary = CalculateMceSBoundary(c)]))
              ELSE Bad(dep)
         [] consumerAgentType = "PLE_LOADER" -> Bad(dep)
         [] consumerAgentType = "PLE_SCHEDULER" ->
              IF producerAgentType = "IFM_STREAMER"
              THEN Ok([dep EXCEPT !.outerRatio =
                                      Ratio(c.numStripes.height * c.numStripes.width
                                                * c.numStripes.channels,
                                            p.numStripes.width * p.numStripes.height
                                                * p.numStripes.channels)])
              ELSE IF producerAgentType = "MCE_SCHEDULER"
              THEN LET channelRatio == DivRoundUp(c.numStripes.channels, p.numStripes.channels)
                       producerStripes == p.numStripes.width * p.numStripes.height
                                              * p.numStripes.channels
                       consumerStripes == c.numStripes.width * c.numStripes.height
                                              * c.numStripes.channels
                   IN IF producerStripes = 0 \/ p.numStripes.channels = 0
                      THEN [dep |-> dep, assertFailed |-> FALSE, trap |-> TRUE]
                      ELSE Ok([dep EXCEPT !.outerRatio = Ratio(cN, pN),
                                          !.innerRatio = Ratio(1, channelRatio * p.ifmChannels),
                                          !.boundary =
                                              IF consumerStripes % producerStripes = 0
                                              THEN 0 ELSE 1])
              ELSE IF producerAgentType = "PLE_LOADER"
              THEN Ok([dep EXCEPT !.outerRatio =
                                      Ratio(c.numStripes.height * c.numStripes.width
                                                * c.numStripes.channels, 1)])
              ELSE IF producerAgentType = "PLE_SCHEDULER"
              THEN Ok([dep EXCEPT !.outerRatio = Ratio(1, 1)])
              ELSE Bad(dep)
         [] consumerAgentType = "OFM_STREAMER" ->
              IF producerAgentType = "IFM_STREAMER"
              THEN Ok([dep EXCEPT !.outerRatio = Ratio(1, 1), !.innerRatio = Ratio(1, 1),
                                  !.boundary = 0])
              ELSE IF producerAgentType = "PLE_SCHEDULER"
              THEN IF c.stripeHeight = 0
                   THEN [dep |-> dep, assertFailed |-> FALSE, trap |-> TRUE]
                   ELSE Ok([dep EXCEPT !.outerRatio = Ratio(cN, pN),
                                       !.innerRatio = Ratio(p.stripeHeight \div c.stripeHeight, 1),
                                       !.boundary =
                                           IF /\ dependencyType = "Schedule"
                                              /\ IsMaxPool(graph, producerOp)
                                              /\ p.numStripes.height > 1
                                           THEN 1 ELSE 0])
              ELSE Bad(dep)
         [] OTHER -> Bad(dep)

\* ------------------------------------------------------------------------
\* State
\* ------------------------------------------------------------------------
VARIABLES
    m_MergedOpGraph,                       \* the op graph being compiled
    assertsEnabled,                        \* FALSE in a build with NDEBUG
    m_CommandStreamAgents,                 \* sequence of AgentDescAndDeps
    m_OpToAgentIdMapping,
    m_PleKernelToPleLoaderAgentIdMapping,
    m_FenceOpForIfmS,
    m_FenceOpForPleL,
    m_FenceOpForWgtS,
    m_DramBufToBufIdMapping,
    m_BufferManager,                       \* buffer id + 1 -> [type, lifetime]
    currentOp,                             \* position of the loop of Generate
    status,                                \* how far Generate has come
    scheduledCommands,                     \* the four command queues of the scheduler
    dmaExtraData,                          \* one entry for each DMA command
    pc,                                    \* per queue, the commands the hardware has executed
    counters,                              \* per queue, the completion counter of its engine
    cascade,                               \* the agents and command lists given to AddCascade
    csbuffer,                              \* the words of the CommandStreamBuffer
    out,                                   \* the text BinaryParser has written
    m_DumpRam,                             \* m_DebuggingContext.m_DebugInfo.m_DumpRam
    m_CommandStream,                       \* the commands of the generator's command stream
    bufferManagerCommandStream,            \* the command stream given to the buffer manager
    g_Logger,                              \* the messages logged as errors
    result,                                \* what Generate has given to its caller
    previous,                              \* the outcome of the run before this one
    core,                                  \* struct ethosn_core of the kernel driver
    irq                                    \* the interrupt register, the work queue and the two handlers

genVars == << m_CommandStreamAgents, m_OpToAgentIdMapping,
              m_PleKernelToPleLoaderAgentIdMapping, m_FenceOpForIfmS, m_FenceOpForPleL,
              m_FenceOpForWgtS, m_DramBufToBufIdMapping, m_BufferManager, currentOp, status >>

\* The members of the generator as one record, so that the steps of
\* Generate can be written as functions from state to state.
GeneratorState ==
    [agents |-> m_CommandStreamAgents,
     opToAgent |-> m_OpToAgentIdMapping,
     kernelToLoader |-> m_PleKernelToPleLoaderAgentIdMapping,
     fenceIfmS |-> m_FenceOpForIfmS,
     fencePleL |-> m_FenceOpForPleL,
     fenceWgtS |-> m_FenceOpForWgtS,
     bufIds |-> m_DramBufToBufIdMapping,
     buffers |-> m_BufferManager,
     status |-> status]

ConstructedState ==
    [agents |-> << >>, opToAgent |-> << >>, kernelToLoader |-> << >>,
     fenceIfmS |-> Null, fencePleL |-> Null, fenceWgtS |-> Null,
     bufIds |-> << >>, buffers |-> << >>, status |-> "running"]

\* ------------------------------------------------------------------------
\* Adding dependencies
\* ------------------------------------------------------------------------
\* The narrowing static_cast<RelativeAgentIdType>.
CastRelativeAgentId(relativeAgentId) == relativeAgentId % RelativeAgentIdRange

\* consumerAgentId - producerAgentId in the unsigned AgentIdType; the producer
\* is never the younger agent (ProducerIsOlder), so the subtraction does not
\* wrap.
RelativeAgentId(consumerAgentId, producerAgentId) == consumerAgentId - producerAgentId

\* Variant: the new dependency replaces the ones the agent had.
StoreDependency_Replace(st, relativeAgentId, filled, owner, kind, keepZero) ==
    IF assertsEnabled /\ relativeAgentId > g_MaxRelativeAgentPosition
    THEN [st EXCEPT !.status = "aborted"]
    ELSE IF filled.trap THEN [st EXCEPT !.status = "crashed"]
    ELSE IF assertsEnabled /\ filled.assertFailed THEN [st EXCEPT !.status = "aborted"]
    ELSE IF filled.dep.relativeAgentId # 0 \/ keepZero
    THEN [st EXCEPT !.agents[owner + 1].deps =
                        [EmptyDependencyInfo EXCEPT ![kind] = << filled.dep >>]]
    ELSE st

\* What an Add...Dependency function does after it has computed the relative
\* agent id: the assert, the cast, the rule table, and the push.
StoreDependency(st, relativeAgentId, filled, owner, kind, keepZero) ==
    IF assertsEnabled /\ relativeAgentId > g_MaxRelativeAgentPosition
    THEN [st EXCEPT !.status = "aborted"]
    ELSE IF filled.trap THEN [st EXCEPT !.status = "crashed"]
    ELSE IF assertsEnabled /\ filled.assertFailed THEN [st EXCEPT !.status = "aborted"]
    ELSE IF filled.dep.relativeAgentId # 0 \/ keepZero
    THEN [st EXCEPT !.agents[owner + 1].deps[kind] = Append(@, filled.dep)]
    ELSE st

NewDependency(relativeAgentId) ==
    [EmptyDependency EXCEPT !.relativeAgentId = CastRelativeAgentId(relativeAgentId)]

AddReadAfterWriteDependency(st, consumerAgentType, consumerAgentId, producerAgentType, producerAgentId, producerOp) ==
    IF st.status # "running" THEN st
    ELSE LET relativeAgentId == RelativeAgentId(consumerAgentId, producerAgentId)
             filled == FillConsumerAgentDependency(
                           NewDependency(relativeAgentId), consumerAgentType, consumerAgentId,
                           producerAgentType, producerAgentId, producerOp, st.agents,
                           m_MergedOpGraph)
         IN StoreDependency(st, relativeAgentId, filled, consumerAgentId,
                            "readDependencies", TRUE)

AddWriteAfterReadDependency(st, consumerAgentType, consumerAgentId, producerAgentType, producerAgentId, producerOp) ==
    IF st.status # "running" THEN st
    ELSE LET relativeAgentId == RelativeAgentId(consumerAgentId, producerAgentId)
             filled == FillProducerAgentDependency(
                           NewDependency(relativeAgentId), consumerAgentType, consumerAgentId,
                           producerAgentType, producerAgentId, producerOp, "Write", st.agents,
                           m_MergedOpGraph)
         IN StoreDependency(st, relativeAgentId, filled, producerAgentId,
                            "writeDependencies", FALSE)

AddScheduleTimeDependency(st, consumerAgentType, consumerAgentId, producerAgentType, producerAgentId, producerOp) ==
    IF st.status # "running" THEN st
    ELSE LET relativeAgentId == RelativeAgentId(consumerAgentId, producerAgentId)
             filled == FillProducerAgentDependency(
                           NewDependency(relativeAgentId), consumerAgentType, consumerAgentId,
                           producerAgentType, producerAgentId, producerOp, "Schedule", st.agents,
                           m_MergedOpGraph)
         IN StoreDependency(st, relativeAgentId, filled, producerAgentId,
                            "scheduleDependencies", FALSE)

\* ------------------------------------------------------------------------
\* Adding agents
\* ------------------------------------------------------------------------
\* BufferManager::AddDram, AddDramInput and AddDramConstant: the new buffer
\* gets the next free id.
AddDram(st, bufferType) ==
    [st EXCEPT !.buffers = Append(@, [type |-> bufferType, lifetime |-> << >>])]

NextBufferId(st) == Len(st.buffers)

AddDramBufferAndCacheId(st, b) ==
    LET inputBuffer == m_MergedOpGraph.bufs[b]
    IN IF b \in DOMAIN st.bufIds THEN st
       ELSE IF inputBuffer.m_BufferType \in {"Input", "Intermediate", "ConstantDma"}
       THEN [AddDram(st, inputBuffer.m_BufferType) EXCEPT
                !.bufIds = MapStore(@, b, NextBufferId(st))]
       ELSE IF assertsEnabled THEN [st EXCEPT !.status = "aborted"]
       ELSE [st EXCEPT !.bufIds = MapStore(@, b, 65535)]

\* The push_back at the end of every Add...ToCommandStream function; the id
\* of the new agent is the size of the vector before the push.
\* Variant: agent ids counted from one.
NextAgentId_OneBased(st) == Len(st.agents) + 1

NextAgentId(st) == Len(st.agents)

PushAgent(st, agent) == [st EXCEPT !.agents = Append(@, AgentDescAndDeps(agent))]

AddIfmStreamerToCommandStream(st, ptrOp) ==
    LET op == m_MergedOpGraph.ops[ptrOp]
        inputSramBuffer == m_MergedOpGraph.bufs[op.output]
        numStripesTotal == GetNumStripesTotal(inputSramBuffer.numStripes)
    IN [PushAgent(st, AgentDesc("IFM_STREAMER", numStripesTotal, inputSramBuffer.numStripes,
                                inputSramBuffer.stripeHeight, op))
           EXCEPT !.opToAgent = MapStore(@, ptrOp, NextAgentId(st))]

AddWeightStreamerToCommandStream(st, ptrDmaOp) ==
    LET op == m_MergedOpGraph.ops[ptrDmaOp]
        weightsSramBuffer == m_MergedOpGraph.bufs[op.output]
        numStripesTotal == GetNumStripesTotal(weightsSramBuffer.numStripes)
        st1 == AddDram(st, "ConstantDma")
    IN [PushAgent(st1, AgentDesc("WGT_STREAMER", numStripesTotal, weightsSramBuffer.numStripes,
                                 weightsSramBuffer.stripeHeight, op))
           EXCEPT !.opToAgent = MapStore(@, ptrDmaOp, NextAgentId(st))]

AddMceSchedulerToCommandStream(st, ptrMceOp) ==
    LET op == m_MergedOpGraph.ops[ptrMceOp]
        numStripesTotal == 1 * op.numStripes.channels * op.numStripes.width * op.numStripes.height
    IN [PushAgent(st, AgentDesc("MCE_SCHEDULER", numStripesTotal, op.numStripes,
                                TensorHeight \div op.numStripes.height, op))
           EXCEPT !.opToAgent = MapStore(@, ptrMceOp, NextAgentId(st))]

AddPleLoaderToCommandStream(st, ptrPleOp) ==
    LET op == m_MergedOpGraph.ops[ptrPleOp]
    IN [PushAgent(st, AgentDesc("PLE_LOADER", 1, NumStripes(1, 1, 1), TensorHeight, op))
           EXCEPT !.kernelToLoader = MapStore(@, op.m_PleKernelId, NextAgentId(st))]

AddPleSchedulerToCommandStream(st, ptrPleOp) ==
    LET op == m_MergedOpGraph.ops[ptrPleOp]
        numStripesTotal == GetNumStripesTotal(op.numStripes)
    IN [PushAgent(st, AgentDesc("PLE_SCHEDULER", numStripesTotal, op.numStripes,
                                TensorHeight \div op.numStripes.height, op))
           EXCEPT !.opToAgent = MapStore(@, ptrPleOp, NextAgentId(st))]

AddOfmStreamerToCommandStream(st, ptrOp) ==
    LET op == m_MergedOpGraph.ops[ptrOp]
        outputSramBuffer == m_MergedOpGraph.bufs[op.inputs[1]]
        numStripesTotal == GetNumStripesTotal(outputSramBuffer.numStripes)
    IN [PushAgent(st, AgentDesc("OFM_STREAMER", numStripesTotal, outputSramBuffer.numStripes,
                                outputSramBuffer.stripeHeight, op))
           EXCEPT !.opToAgent = MapStore(@, ptrOp, NextAgentId(st))]

\* Variant: the fence is reset without a dependency on it.
AddFenceDependency_None(st, fence, consumerAgentType, consumerAgentId) == st

\* The fence taken by a new IFM streamer, weight streamer or PLE loader:
\* m_OpToAgentIdMapping.at(fence) gives the agent to wait for.
AddFenceDependency(st, fence, consumerAgentType, consumerAgentId) ==
    IF fence = Null THEN st
    ELSE AddReadAfterWriteDependency(st, consumerAgentType, consumerAgentId,
                                     st.agents[st.opToAgent[fence] + 1].agent.type,
                                     st.opToAgent[fence], fence)

\* ------------------------------------------------------------------------
\* Processing the ops
\* ------------------------------------------------------------------------
OpKindAgentType(ptrOp) ==
    IF ptrOp # Null /\ m_MergedOpGraph.ops[ptrOp].kind = "PleOp"
    THEN "PLE_SCHEDULER" ELSE "IFM_STREAMER"

ProcessDmaOp(st, ptrDmaOp) ==
    LET op == m_MergedOpGraph.ops[ptrDmaOp]
        inputBuffer == m_MergedOpGraph.bufs[op.inputs[1]]
        outputBuffer == m_MergedOpGraph.bufs[op.output]
    IN IF inputBuffer.m_Location = "Dram" /\ outputBuffer.m_Location = "Sram"
       THEN IF inputBuffer.m_Format # "WEIGHT"
            THEN LET s1 == AddDramBufferAndCacheId(st, op.inputs[1])
                     ifmStreamerAgentId == NextAgentId(s1)
                     s2 == AddIfmStreamerToCommandStream(s1, ptrDmaOp)
                     s3 == AddFenceDependency(s2, s2.fenceIfmS, "IFM_STREAMER", ifmStreamerAgentId)
                 IN IF s1.status # "running" THEN s1
                    ELSE IF s2.fenceIfmS = Null \/ s3.status # "running" THEN s3
                    ELSE [s3 EXCEPT !.fenceIfmS = Null]
            ELSE LET weightStreamerAgentId == NextAgentId(st)
                     s2 == AddWeightStreamerToCommandStream(st, ptrDmaOp)
                     s3 == AddFenceDependency(s2, s2.fenceWgtS, "WGT_STREAMER", weightStreamerAgentId)
                 IN IF s2.fenceWgtS = Null \/ s3.status # "running" THEN s3
                    ELSE [s3 EXCEPT !.fenceWgtS = Null]
       ELSE IF inputBuffer.m_Location = "Sram" /\ outputBuffer.m_Location = "Dram"
       THEN LET producerOp == GetSingleProducer(m_MergedOpGraph, op.inputs[1])
                producerAgentType == OpKindAgentType(producerOp)
                s1 == IF op.output \in DOMAIN st.bufIds THEN st
                      ELSE [AddDram(st, outputBuffer.m_BufferType) EXCEPT
                               !.bufIds = MapStore(@, op.output, NextBufferId(st))]
                ofmStreamerAgentId == NextAgentId(s1)
                s2 == AddOfmStreamerToCommandStream(s1, ptrDmaOp)
                producerAgentId == MapLookup(s2.opToAgent, producerOp)
                s3 == [s2 EXCEPT !.opToAgent = MapTouch(@, producerOp)]
                s4 == AddReadAfterWriteDependency(s3, "OFM_STREAMER", ofmStreamerAgentId,
                                                  producerAgentType, producerAgentId, producerOp)
                s5 == AddWriteAfterReadDependency(s4, "OFM_STREAMER", ofmStreamerAgentId,
                                                  producerAgentType, producerAgentId, producerOp)
            IN AddScheduleTimeDependency(s5, "OFM_STREAMER", ofmStreamerAgentId,
                                         producerAgentType, producerAgentId, producerOp)
       ELSE IF assertsEnabled THEN [st EXCEPT !.status = "aborted"] ELSE st

ProcessMceOp(st, ptrMceOp) ==
    LET op == m_MergedOpGraph.ops[ptrMceOp]
        producerOp == GetSingleProducer(m_MergedOpGraph, op.inputs[1])
        producerAgentType == OpKindAgentType(producerOp)
        ptrPleOp == GetConsumer(m_MergedOpGraph, op.output)
        loadKernel == m_MergedOpGraph.ops[ptrPleOp].m_LoadKernel
        wgtDmaOp == GetSingleProducer(m_MergedOpGraph, op.inputs[2])
        pleLoaderAgentId == IF loadKernel THEN NextAgentId(st) ELSE 0
        \* The PLE loader, the dependency on its fence, and the fence reset.
        ResetFence(s1, s2) ==
            IF s1.fencePleL # Null /\ s2.status = "running"
            THEN [s2 EXCEPT !.fencePleL = Null] ELSE s2
        Fence(s1) ==
            ResetFence(s1, AddFenceDependency(s1, s1.fencePleL, "PLE_LOADER", pleLoaderAgentId))
        Loader(s) ==
            IF loadKernel THEN Fence(AddPleLoaderToCommandStream(s, ptrPleOp)) ELSE s
        \* The dependencies of the MCE scheduler, in the order of the code.
        LoaderSchedule(s11, mceSchedulerAgentId) ==
            IF loadKernel
            THEN AddScheduleTimeDependency(s11, "MCE_SCHEDULER", mceSchedulerAgentId,
                                           "PLE_LOADER", pleLoaderAgentId, Null)
            ELSE s11
        Dependencies(s5, mceSchedulerAgentId, producerAgentId, wgtAgentId) ==
            LoaderSchedule(
                AddScheduleTimeDependency(
                    AddScheduleTimeDependency(
                        AddWriteAfterReadDependency(
                            AddWriteAfterReadDependency(
                                AddReadAfterWriteDependency(
                                    AddReadAfterWriteDependency(
                                        s5, "MCE_SCHEDULER", mceSchedulerAgentId,
                                        producerAgentType, producerAgentId, producerOp),
                                    "MCE_SCHEDULER", mceSchedulerAgentId,
                                    "WGT_STREAMER", wgtAgentId, wgtDmaOp),
                                "MCE_SCHEDULER", mceSchedulerAgentId,
                                producerAgentType, producerAgentId, producerOp),
                            "MCE_SCHEDULER", mceSchedulerAgentId,
                            "WGT_STREAMER", wgtAgentId, wgtDmaOp),
                        "MCE_SCHEDULER", mceSchedulerAgentId,
                        producerAgentType, producerAgentId, producerOp),
                    "MCE_SCHEDULER", mceSchedulerAgentId,
                    "WGT_STREAMER", wgtAgentId, wgtDmaOp),
                mceSchedulerAgentId)
        Scheduler(s4, mceSchedulerAgentId) ==
            Dependencies([s4 EXCEPT !.opToAgent = MapTouch(MapTouch(@, producerOp), wgtDmaOp)],
                         mceSchedulerAgentId,
                         MapLookup(s4.opToAgent, producerOp),
                         MapLookup(MapTouch(s4.opToAgent, producerOp), wgtDmaOp))
        Mce(s3) ==
            IF s3.status # "running" THEN s3
            ELSE Scheduler(AddMceSchedulerToCommandStream(s3, ptrMceOp), NextAgentId(s3))
    IN Mce(Loader(st))

ProcessPleOp(st, ptrPleOp) ==
    LET op == m_MergedOpGraph.ops[ptrPleOp]
        inputBuffers == op.inputs
        isStandAlonePle == m_MergedOpGraph.bufs[inputBuffers[1]].m_Location = "Sram"
        input0Producer == GetSingleProducer(m_MergedOpGraph, inputBuffers[1])
        input1Producer == IF Len(inputBuffers) = 2
                          THEN GetSingleProducer(m_MergedOpGraph, inputBuffers[2]) ELSE Null
        loadKernel == op.m_LoadKernel
        \* Read After Write Dependency for [PleScheduler][PleLoader]
        LoaderRaw(s, pleSchedulerAgentId) ==
            IF loadKernel /\ s.status = "running"
            THEN AddReadAfterWriteDependency(
                     [s EXCEPT !.kernelToLoader = MapTouch(@, op.m_PleKernelId)],
                     "PLE_SCHEDULER", pleSchedulerAgentId, "PLE_LOADER",
                     MapLookup(s.kernelToLoader, op.m_PleKernelId), Null)
            ELSE s
        \* A PleOp whose input is in SRAM.
        Input1Raw(s, pleSchedulerAgentId, input1AgentId, input1AgentType) ==
            IF input1Producer # Null /\ s.status = "running"
            THEN AddReadAfterWriteDependency(
                     [s EXCEPT !.opToAgent = MapTouch(@, input1Producer)],
                     "PLE_SCHEDULER", pleSchedulerAgentId,
                     input1AgentType, input1AgentId, input1Producer)
            ELSE s
        ResetFence(s6, s7) ==
            IF s6.fencePleL # Null /\ s7.status = "running"
            THEN [s7 EXCEPT !.fencePleL = Null] ELSE s7
        Fence(s6, pleLoaderAgentId) ==
            IF loadKernel
            THEN ResetFence(s6, AddFenceDependency(s6, s6.fencePleL, "PLE_LOADER",
                                                   pleLoaderAgentId))
            ELSE s6
        Input0War(s8, pleSchedulerAgentId, input0AgentId, input0AgentType) ==
            AddScheduleTimeDependency(
                AddWriteAfterReadDependency(
                    s8, "PLE_SCHEDULER", pleSchedulerAgentId,
                    input0AgentType, input0AgentId, input0Producer),
                "PLE_SCHEDULER", pleSchedulerAgentId,
                input0AgentType, input0AgentId, input0Producer)
        Input1War(s10, pleSchedulerAgentId, input1AgentId, input1AgentType) ==
            IF input1Producer # Null
            THEN AddScheduleTimeDependency(
                     AddWriteAfterReadDependency(
                         s10, "PLE_SCHEDULER", pleSchedulerAgentId,
                         input1AgentType, input1AgentId, input1Producer),
                     "PLE_SCHEDULER", pleSchedulerAgentId,
                     input1AgentType, input1AgentId, input1Producer)
            ELSE s10
        LoaderSchedule(s11, pleSchedulerAgentId, pleLoaderAgentId) ==
            IF loadKernel
            THEN AddScheduleTimeDependency(s11, "PLE_SCHEDULER", pleSchedulerAgentId,
                                           "PLE_LOADER", pleLoaderAgentId, Null)
            ELSE s11
        Input0Raw(s2, pleSchedulerAgentId, input0AgentId, input0AgentType) ==
            AddReadAfterWriteDependency(
                [s2 EXCEPT !.opToAgent = MapTouch(@, input0Producer)],
                "PLE_SCHEDULER", pleSchedulerAgentId,
                input0AgentType, input0AgentId, input0Producer)
        AfterInput1(s4, pleLoaderAgentId, pleSchedulerAgentId, input0AgentId, input0AgentType, input1AgentId, input1AgentType) ==
            LoaderSchedule(
                Input1War(
                    Input0War(
                        Fence(LoaderRaw(Input1Raw(s4, pleSchedulerAgentId,
                                                  input1AgentId, input1AgentType),
                                        pleSchedulerAgentId),
                              pleLoaderAgentId),
                        pleSchedulerAgentId, input0AgentId, input0AgentType),
                    pleSchedulerAgentId, input1AgentId, input1AgentType),
                pleSchedulerAgentId, pleLoaderAgentId)
        AfterInput0(s4, pleLoaderAgentId, pleSchedulerAgentId, input0AgentId, input0AgentType, input1AgentId) ==
            AfterInput1(s4, pleLoaderAgentId, pleSchedulerAgentId,
                        input0AgentId, input0AgentType,
                        input1AgentId, s4.agents[input1AgentId + 1].agent.type)
        Input0(s2, pleLoaderAgentId, pleSchedulerAgentId, input0AgentId, input0AgentType) ==
            LET WithInput1(s4) ==
                    AfterInput0(s4, pleLoaderAgentId, pleSchedulerAgentId,
                                input0AgentId, input0AgentType,
                                MapLookup(s4.opToAgent, input1Producer))
            IN WithInput1(Input0Raw(s2, pleSchedulerAgentId, input0AgentId, input0AgentType))
        AfterScheduler(s2, pleLoaderAgentId, pleSchedulerAgentId, input0AgentId) ==
            Input0(s2, pleLoaderAgentId, pleSchedulerAgentId,
                   input0AgentId, s2.agents[input0AgentId + 1].agent.type)
        Scheduler(s2, pleLoaderAgentId, pleSchedulerAgentId) ==
            AfterScheduler(s2, pleLoaderAgentId, pleSchedulerAgentId,
                           MapLookup(s2.opToAgent, input0Producer))
        AfterLoader(s1, pleLoaderAgentId) ==
            Scheduler(AddPleSchedulerToCommandStream(s1, ptrPleOp),
                      pleLoaderAgentId, NextAgentId(s1))
        StandAlone ==
            AfterLoader(IF loadKernel THEN AddPleLoaderToCommandStream(st, ptrPleOp) ELSE st,
                        IF loadKernel THEN NextAgentId(st) ELSE 0)
        \* A PleOp fused to the MceOp that feeds it.
        FusedDependencies(s1, pleSchedulerAgentId, input0AgentId) ==
            AddScheduleTimeDependency(
                LoaderRaw(Input0Raw(s1, pleSchedulerAgentId, input0AgentId, "MCE_SCHEDULER"),
                          pleSchedulerAgentId),
                "PLE_SCHEDULER", pleSchedulerAgentId,
                "MCE_SCHEDULER", input0AgentId, input0Producer)
        FusedScheduler(s1, pleSchedulerAgentId) ==
            FusedDependencies(s1, pleSchedulerAgentId, MapLookup(s1.opToAgent, input0Producer))
        Fused ==
            FusedScheduler(AddPleSchedulerToCommandStream(st, ptrPleOp), NextAgentId(st))
    IN IF isStandAlonePle THEN StandAlone ELSE Fused

\* One iteration of the loop over the ops in Generate.
ProcessOp(st, op) ==
    LET kind == m_MergedOpGraph.ops[op].kind
        producedBuffer == GetOutput(m_MergedOpGraph, op)
        b == m_MergedOpGraph.bufs[producedBuffer]
        Fences(s1) ==
            IF s1.status # "running" THEN s1
            ELSE IF /\ producedBuffer # Null
                    /\ IsFullTensor(b)
                    /\ ~(kind = "DmaOp" /\ b.m_Location = "Sram")
            THEN [s1 EXCEPT !.fenceIfmS = op, !.fencePleL = op, !.fenceWgtS = op]
            ELSE s1
    IN Fences(IF kind = "DmaOp" THEN ProcessDmaOp(st, op)
              ELSE IF kind = "MceOp" THEN ProcessMceOp(st, op)
              ELSE IF kind = "PleOp" THEN ProcessPleOp(st, op)
              ELSE [st EXCEPT !.status = "failed"])

\* ------------------------------------------------------------------------
\* Lifetimes of the intermediate DRAM buffers
\* ------------------------------------------------------------------------
SetMin(S) == CHOOSE x \in S : \A y \in S : x <= y
SetMax(S) == CHOOSE x \in S : \A y \in S : x >= y

\* utils::FindIndex(graph.GetOps(), op).second: the zero-based position.
FindIndex(op) == op - 1

RECURSIVE WalkGraphUp(_, _)
WalkGraphUp(graph, b) ==
    LET EarliestOpIdxThisProducer(producer) ==
            LET inputs == GetInputs(graph, producer)
                ups == { WalkGraphUp(graph, inputs[i]) :
                            i \in { j \in 1..Len(inputs) :
                                       graph.bufs[inputs[j]].m_Location # "Dram" } }
                earliest == SetMin(ups \cup {SizeMax})
            IN IF earliest = SizeMax THEN FindIndex(producer) ELSE earliest
    IN SetMin({ EarliestOpIdxThisProducer(p) : p \in GetProducers(graph, b) } \cup {SizeMax})

RECURSIVE WalkGraphDown(_, _)
WalkGraphDown(graph, b) ==
    LET LatestOpIdxThisConsumer(consumer) ==
            LET output == GetOutput(graph, consumer)
            IN IF graph.bufs[output].m_Location = "Dram" THEN FindIndex(consumer)
               ELSE WalkGraphDown(graph, output)
    IN SetMax({ LatestOpIdxThisConsumer(c) : c \in GetConsumers(graph, b) } \cup {0})

\* static_cast<uint32_t> of an op index: op indices are far below 2^32, and
\* the value with no index, SizeMax, keeps all its low bits set.
CastUint32(x) == x

\* BufferManager::MarkBufferUsedAtTime
MarkBufferUsedAtTime(buffers, bufferId, startTime, endTime) ==
    [buffers EXCEPT ![bufferId + 1].lifetime = << startTime, endTime >>]

IntermediateDramBuffers(graph) ==
    { b \in 1..Len(graph.bufs) : /\ graph.bufs[b].m_Location = "Dram"
                                 /\ graph.bufs[b].m_BufferType = "Intermediate" }

RECURSIVE MarkLifetimes(_, _, _)
MarkLifetimes(st, graph, todo) ==
    IF todo = {} THEN st
    ELSE LET buffer == SetMin(todo)
             lifetimeStart == WalkGraphUp(graph, buffer)
             lifetimeEnd == WalkGraphDown(graph, buffer)
         IN MarkLifetimes(
                [st EXCEPT !.buffers = MarkBufferUsedAtTime(@, st.bufIds[buffer],
                                           CastUint32(lifetimeStart),
                                           CastUint32(lifetimeEnd + 1))],
                graph, todo \ {buffer})

AddLifetimeInfoForIntermediateDramBuffers(st) ==
    MarkLifetimes(st, m_MergedOpGraph, IntermediateDramBuffers(m_MergedOpGraph))

\* ------------------------------------------------------------------------
\* The scheduler
\* ------------------------------------------------------------------------
Queues == {"DmaRd", "DmaWr", "Mce", "Ple"}

\* The queue an agent's commands are appended to.
QueueOf(type) ==
    CASE type \in {"IFM_STREAMER", "WGT_STREAMER", "PLE_LOADER"} -> "DmaRd"
      [] type = "OFM_STREAMER" -> "DmaWr"
      [] type = "MCE_SCHEDULER" -> "Mce"
      [] type = "PLE_SCHEDULER" -> "Ple"

\* The rows one DMA transfer moves at most; a taller stripe is split in chunks.
MaxChunkRows == 8

\* The work commands of one stripe of an agent.
WorkCommands(agent, agentId, stripeId) ==
    LET Cmd(t) == [type |-> t, agentId |-> agentId, stripeId |-> stripeId]
        chunks == DivRoundUp(agent.stripeHeight, MaxChunkRows)
    IN CASE agent.type = "IFM_STREAMER" -> [i \in 1..chunks |-> Cmd("LoadIfmStripe")]
         [] agent.type = "WGT_STREAMER" -> << Cmd("LoadWgtStripe") >>
         [] agent.type = "PLE_LOADER" -> << Cmd("LoadPleCode") >>
         [] agent.type = "MCE_SCHEDULER" -> << Cmd("ProgramMceStripe"), Cmd("StartMceStripe") >>
         [] agent.type = "PLE_SCHEDULER" -> << Cmd("StartPleStripe") >>
         [] agent.type = "OFM_STREAMER" -> [i \in 1..chunks |-> Cmd("StoreOfmStripe")]

\* Variant: the wait is for one completion more.
WaitForCounter_OneMore(counterName, counterValue) ==
    [type |-> "WaitForCounter", counterName |-> counterName, counterValue |-> counterValue + 1]

WaitForCounter(counterName, counterValue) ==
    [type |-> "WaitForCounter", counterName |-> counterName, counterValue |-> counterValue]

\* The last stripe of the producer that stripe stripeId of the consumer needs,
\* through the outer and inner ratios and the boundary of the dependency.
GetLargestNeededStripeId(dep, stripeId) ==
    LET outer == dep.outerRatio.other * (stripeId \div dep.outerRatio.self)
        inner == dep.innerRatio.other * ((stripeId % dep.outerRatio.self) \div dep.innerRatio.self)
                 + dep.innerRatio.other - 1 + dep.boundary
    IN outer + Min(Max(inner, 0), dep.outerRatio.other - 1)

EmptyScheduler ==
    [commands |-> [q \in Queues |-> << >>],
     counters |-> [q \in Queues |-> 0],
     recorded |-> << >>,
     waited |-> [q \in Queues |-> [c \in Queues |-> 0]],
     failed |-> FALSE]

\* The producer stripes that stripe stripeId of agent agentId reads after they
\* are written: for every read dependency the producer agent and its stripe.
NeededStripes(agents, agentId, stripeId) ==
    LET deps == agents[agentId + 1].deps.readDependencies
    IN { [agentId |-> agentId - deps[i].relativeAgentId,
          stripeId |-> IF deps[i].outerRatio.self = 0 \/ deps[i].innerRatio.self = 0
                       THEN -1 ELSE GetLargestNeededStripeId(deps[i], stripeId)] :
            i \in 1..Len(deps) }

\* A needed stripe the scheduler has a counter value for.
HasRecordedCounter(sch, need) ==
    /\ need.agentId + 1 \in 1..Len(sch.recorded)
    /\ need.stripeId + 1 \in 1..Len(sch.recorded[need.agentId + 1])

QueueRank(q) ==
    CASE q = "DmaRd" -> 0 [] q = "DmaWr" -> 1 [] q = "Mce" -> 2 [] q = "Ple" -> 3

\* Variant: no wait is inserted.
InsertWaits_None(sch, queue, thresholds, todo) == sch

RECURSIVE InsertWaits(_, _, _, _)
InsertWaits(sch, queue, thresholds, todo) ==
    IF todo = {} THEN sch
    ELSE LET c == CHOOSE x \in todo : \A y \in todo : QueueRank(x) <= QueueRank(y)
             s1 == IF c # queue /\ thresholds[c] > sch.waited[queue][c]
                   THEN [sch EXCEPT !.commands[queue] = Append(@, WaitForCounter(c, thresholds[c])),
                                    !.waited[queue][c] = thresholds[c]]
                   ELSE sch
         IN InsertWaits(s1, queue, thresholds, todo \ {c})

\* Appends the waits and the work commands of one stripe of one agent, and
\* records the value its engine's counter has once the stripe is complete.
ScheduleOneStripe(sch, agents, agentId, stripeId) ==
    LET agent == agents[agentId + 1].agent
        queue == QueueOf(agent.type)
        needs == NeededStripes(agents, agentId, stripeId)
        Threshold(c) ==
            SetMax({0} \cup { sch.recorded[n.agentId + 1][n.stripeId + 1] :
                                n \in { m \in needs :
                                          QueueOf(agents[m.agentId + 1].agent.type) = c } })
        s1 == InsertWaits(sch, queue, [c \in Queues |-> Threshold(c)], Queues)
        work == WorkCommands(agent, agentId, stripeId)
        count == s1.counters[queue] + Len(work)
        mine == IF stripeId = 0 THEN << >> ELSE s1.recorded[agentId + 1]
    IN IF \E n \in needs : ~HasRecordedCounter(sch, n)
       THEN [sch EXCEPT !.failed = TRUE]
       ELSE [s1 EXCEPT !.commands[queue] = @ \o work,
                       !.counters[queue] = count,
                       !.recorded = IF stripeId = 0 THEN Append(@, << count >>)
                                    ELSE [@ EXCEPT ![agentId + 1] = Append(@, count)]]

RECURSIVE ScheduleFrom(_, _, _, _)
ScheduleFrom(sch, agents, agentId, stripeId) ==
    IF sch.failed \/ agentId >= Len(agents) THEN sch
    ELSE IF agents[agentId + 1].agent.numStripesTotal = 0 THEN [sch EXCEPT !.failed = TRUE]
    ELSE IF stripeId >= agents[agentId + 1].agent.numStripesTotal
    THEN ScheduleFrom(sch, agents, agentId + 1, 0)
    ELSE ScheduleFrom(ScheduleOneStripe(sch, agents, agentId, stripeId),
                      agents, agentId, stripeId + 1)

\* Scheduler::Schedule
Schedule(agents) == ScheduleFrom(EmptyScheduler, agents, 0, 0)

\* ------------------------------------------------------------------------
\* The operation graphs the generator is run on
\* ------------------------------------------------------------------------
\* Kernel height of the MCE ops.
FilterHeight == 3

LayerSet ==
    Layers({"mce"}, 1..MaxStripes, BOOLEAN, {"NONE"}, {FilterHeight})
    \cup Layers({"ple"}, 1..MaxStripes, BOOLEAN, {"NONE"}, {1})
    \cup Layers({"other"}, {1}, {FALSE}, {"NONE"}, {1})

\* A section without layers stores the buffer it loaded.
SectionsWith(budget) ==
    { MkSection(ifm, layers, ofm) :
        ifm \in 1..MaxStripes, layers \in SeqsUpTo(LayerSet, budget) \ { << >> },
        ofm \in 1..MaxStripes }
    \cup { MkSection(ifm, << >>, ifm) : ifm \in 1..MaxStripes }

\* The sequences of k sections that hold at most budget layers together.
RECURSIVE SectionSeqs(_, _)
SectionSeqs(k, budget) ==
    IF k = 0 THEN { << >> }
    ELSE UNION { { << s >> \o rest : rest \in SectionSeqs(k - 1, budget - Len(s.layers)) } :
                    s \in SectionsWith(budget) }

SmallSectionSeqs == UNION { SectionSeqs(k, MaxLayers) : k \in 1..MaxSections }

SmallGraphs == { MkGraph(ss) : ss \in SmallSectionSeqs }

\* A cascade of n striped MCE layers, of which only the last layer loads a PLE
\* kernel, behind a PLE layer that writes a whole tensor to SRAM and two
\* striped PLE layers.
StripedMce(load) ==
    [kind |-> "mce", n |-> 2, load |-> load, kernel |-> 1, op |-> "NONE", filter |-> 1]
StripedPle == [kind |-> "ple", n |-> 2, load |-> FALSE, kernel |-> 1, op |-> "NONE", filter |-> 1]
WholePle == [kind |-> "ple", n |-> 1, load |-> FALSE, kernel |-> 1, op |-> "NONE", filter |-> 1]

LongCascade(n) ==
    MkGraph(<< MkSection(1, << WholePle, StripedPle, StripedPle >>
                               \o [i \in 1..n |-> StripedMce(i = n)], 2) >>)

\* The number of layers that puts the kernel load of the last layer exactly
\* RelativeAgentIdRange agents behind the PLE layer that writes the whole tensor.
WrapLayers == RelativeAgentIdRange \div 3

LongGraphs == { LongCascade(WrapLayers), LongCascade(WrapLayers + 1) }

\* A section loading a PLE kernel in each of n layers, followed by a section
\* reading its result from DRAM.
KernelLoads(n) ==
    MkGraph(<< MkSection(1, [i \in 1..n |-> [WholePle EXCEPT !.load = TRUE]], 1),
               MkSection(1, << >>, 1) >>)

KernelGraphs == { KernelLoads(MaxLayers + 1), KernelLoads(MaxLayers + 2) }

Graphs == SmallGraphs \cup KernelGraphs

vars == << core, irq, m_MergedOpGraph, assertsEnabled, m_CommandStreamAgents, m_OpToAgentIdMapping,
           m_PleKernelToPleLoaderAgentIdMapping, m_FenceOpForIfmS, m_FenceOpForPleL,
           m_FenceOpForWgtS, m_DramBufToBufIdMapping, m_BufferManager, currentOp, status,
           scheduledCommands, dmaExtraData, pc, counters, cascade, csbuffer, out,
           m_DumpRam, m_CommandStream, bufferManagerCommandStream, g_Logger, result,
           previous >>

codecVars == << cascade, csbuffer, out >>

\* What Generate hands over: the command stream, the log and the result.
emitVars == << m_CommandStream, bufferManagerCommandStream, g_Logger, result >>

\* No cascade has been given to the codec.
NoCascade == [agents |-> << >>, commands |-> [q \in Queues |-> << >>]]

hwVars == << scheduledCommands, dmaExtraData, pc, counters >>

\* Writes a generator state back to the members.
Becomes(st) ==
    /\ m_CommandStreamAgents' = st.agents
    /\ m_OpToAgentIdMapping' = st.opToAgent
    /\ m_PleKernelToPleLoaderAgentIdMapping' = st.kernelToLoader
    /\ m_FenceOpForIfmS' = st.fenceIfmS
    /\ m_FenceOpForPleL' = st.fencePleL
    /\ m_FenceOpForWgtS' = st.fenceWgtS
    /\ m_DramBufToBufIdMapping' = st.bufIds
    /\ m_BufferManager' = st.buffers
    /\ status' = st.status

\* A CompiledOpGraph: m_CompiledNetwork is the null pointer or the network
\* made of the buffers and the command stream of the buffer manager.
NoCompiledNetwork == [made |-> FALSE, buffers |-> << >>, commandStream |-> << >>]
CompiledNetworkImpl(buffers, commandStream) ==
    [made |-> TRUE, buffers |-> buffers, commandStream |-> commandStream]
CompiledOpGraph(network, opToAgent, bufIds) ==
    [m_CompiledNetwork |-> network, m_OpToAgentIdMapping |-> opToAgent, m_BufferIds |-> bufIds]

\* The value-initialised CompiledOpGraph of `return {}`.
EmptyCompiledOpGraph == CompiledOpGraph(NoCompiledNetwork, << >>, << >>)

\* What the caller of Generate has got: nothing yet, a returned value, or an
\* exception that left Generate.
NoResult == [kind |-> "none", exception |-> "", what |-> "", value |-> EmptyCompiledOpGraph]
Returned(value) == [kind |-> "returned", exception |-> "", what |-> "", value |-> value]
Thrown(exception, what) ==
    [kind |-> "thrown", exception |-> exception, what |-> what, value |-> EmptyCompiledOpGraph]

\* No run has gone before.
NoOutcome == [run |-> FALSE, result |-> NoResult, commandStream |-> << >>]

\* ------------------------------------------------------------------------
\* The kernel driver: state of a core and of its interrupt handlers
\* ------------------------------------------------------------------------
\* Bits of dl1_irq_status_r. setirq_dbg behaves as setirq_job (cleared by the
\* top half, no error) and func_err, rec_err, unrec_err as tol_err (an error
\* that the top half does not clear), so one bit of each class is kept.
StatusBits == {"setirq_err", "setirq_job", "tol_err"}

\* The bits that DL1_CLRIRQ_EXT clears.
ClearableBits == {"setirq_err", "setirq_job"}

\* The bits that make error_status of ethosn_irq_bottom.
ErrorBits == {"setirq_err", "tol_err"}

\* The IRQ numbers that ethosn_init_interrupt registers ethosn_irq_top for.
NumIrqs == 2
IrqLines == 1..NumIrqs

EFAULT == 14
ENOMEM == 12

\* The number of messages ethosn_irq_bottom handles in one call.
MaxMessagesHandled == 10

\* The frame of ethosn_irq_top that no interrupt has invoked.
TopIdle == [pc |-> "idle", status |-> {}]

\* The frame of ethosn_irq_bottom as the work queue calls it. failed, running,
\* inference and reset record what happened in the call: that handle_message
\* returned an error, firmware_running and current_inference at that moment,
\* and that the firmware was reset.
BottomEntered ==
    [pc |-> "idle", ret |-> 0, status |-> {}, num_messages_handled |-> 0,
     failed |-> FALSE, running |-> FALSE, inference |-> Null, reset |-> FALSE]

\* A core with the given mailbox, before any interrupt.
CoreWith(mailbox, init_done, firmware_running, current_inference) ==
    [irq_status |-> {}, init_done |-> init_done, mutex |-> FALSE,
     firmware_running |-> firmware_running, current_inference |-> current_inference,
     inference_status |-> IF current_inference = Null THEN "NONE" ELSE "RUNNING",
     current_busy_cores |-> IF current_inference = Null THEN {} ELSE {0},
     status_mask |-> {}, mailbox |-> mailbox, fw_and_hw_caps |-> FALSE,
     num_pongs_received |-> 0, firmware_log |-> 0, profiling_acks |-> 0]

\* No interrupt raised, no work queued, both handlers at rest; the hardware
\* raises `budget` interrupts. owed holds the bits that ethosn_irq_top has
\* saved and that no call of ethosn_irq_bottom has been given yet.
IrqWith(budget) ==
    [DL1_IRQ_STATUS |-> {}, work |-> FALSE, top |-> [l \in IrqLines |-> TopIdle],
     bottom |-> BottomEntered, owed |-> {}, budget |-> budget]

\* The driver has not been loaded.
DriverNotLoaded ==
    /\ core = CoreWith(<< >>, 0, FALSE, Null)
    /\ irq = IrqWith(0)

\* The generator as constructed for the graph, in a build with or without
\* assert (NDEBUG), with the debugging context asking for dumps or not.
ConstructedWith(graphs, dumpRams) ==
    /\ DriverNotLoaded
    /\ m_MergedOpGraph \in graphs
    /\ m_DumpRam \in dumpRams
    /\ m_CommandStream = << >>
    /\ bufferManagerCommandStream = << >>
    /\ g_Logger = << >>
    /\ result = NoResult
    /\ previous = NoOutcome
    /\ assertsEnabled \in BOOLEAN
    /\ m_CommandStreamAgents = << >>
    /\ m_OpToAgentIdMapping = << >>
    /\ m_PleKernelToPleLoaderAgentIdMapping = << >>
    /\ m_FenceOpForIfmS = Null
    /\ m_FenceOpForPleL = Null
    /\ m_FenceOpForWgtS = Null
    /\ m_DramBufToBufIdMapping = << >>
    /\ m_BufferManager = << >>
    /\ currentOp = 1
    /\ status = "running"
    /\ scheduledCommands = [q \in Queues |-> << >>]
    /\ dmaExtraData = << >>
    /\ pc = [q \in Queues |-> 0]
    /\ counters = [q \in Queues |-> 0]
    /\ cascade = NoCascade
    /\ csbuffer = << >>
    /\ out = << >>

\* The generator with a debugging context that asks for no dumps.
Constructed(graphs) == ConstructedWith(graphs, {FALSE})

\* The text of the NotSupportedException that the loop of Generate throws.
NotSupportedWhat == "Op is not currently supported by the Cascading Compiler"

\* g_Logger.Error("Error: %s", e.what())
LoggedError(what) == [severity |-> "Error", format |-> "Error: %s", what |-> what]

\* The catch block of Generate: the exception is logged and `return {}`
\* gives the caller an empty CompiledOpGraph.
CatchNotSupported(caught, log, given) ==
    IF caught
    THEN [log |-> Append(log, LoggedError(NotSupportedWhat)),
          result |-> Returned(EmptyCompiledOpGraph)]
    ELSE [log |-> log, result |-> given]

\* One iteration of the loop of Generate over m_MergedOpGraph.GetOps().
GenerateLoop ==
    /\ status = "running"
    /\ currentOp <= Len(m_MergedOpGraph.ops)
    /\ Becomes(ProcessOp(GeneratorState, currentOp))
    /\ currentOp' = currentOp + 1
    /\ g_Logger' = CatchNotSupported(status' = "failed", g_Logger, result).log
    /\ result' = CatchNotSupported(status' = "failed", g_Logger, result).result
    /\ UNCHANGED << core, irq, m_MergedOpGraph, assertsEnabled, hwVars, codecVars, m_DumpRam,
                    m_CommandStream, bufferManagerCommandStream, previous >>

\* Generate after the loop.  The assert on entry fails for a graph without
\* ops only; with one the loop has run before this step.
GenerateLifetimes ==
    /\ status = "running"
    /\ currentOp > Len(m_MergedOpGraph.ops)
    /\ Becomes(IF assertsEnabled /\ Len(m_MergedOpGraph.ops) = 0
               THEN [GeneratorState EXCEPT !.status = "aborted"]
               ELSE [AddLifetimeInfoForIntermediateDramBuffers(GeneratorState)
                        EXCEPT !.status = "lifetimes"])
    /\ UNCHANGED << core, irq, m_MergedOpGraph, assertsEnabled, currentOp, hwVars, codecVars, m_DumpRam,
                    emitVars, previous >>

IsDmaCommand(c) ==
    c.type \in {"LoadIfmStripe", "StoreOfmStripe", "LoadWgtStripe", "LoadPleCode"}

\* Variant: the DMA command id is not advanced.
NextDmaCmdId_Same(nextDmaCmdId, firstDmaCmdId) == nextDmaCmdId

\* The DMA command id after nextDmaCmdId: the ids of the read queue cycle
\* through 0..3 (firstDmaCmdId 0), those of the write queue through 4..7
\* (firstDmaCmdId 4).
NextDmaCmdId(nextDmaCmdId, firstDmaCmdId) == firstDmaCmdId + ((nextDmaCmdId + 1) % 4)

\* Variant: the chunk id of a stripe is not advanced.
RECURSIVE DmaExtraDataFor_SameChunk(_, _, _, _, _)
DmaExtraDataFor_SameChunk(cmds, i, agentAndStripeToChunk, nextDmaCmdId, firstDmaCmdId) ==
    IF i > Len(cmds) THEN << >>
    ELSE LET c == cmds[i]
             following == NextDmaCmdId(nextDmaCmdId, firstDmaCmdId)
         IN IF IsDmaCommand(c)
            THEN << [agentId |-> c.agentId, stripeId |-> c.stripeId, chunkId |-> 0,
                     dmaCmdId |-> nextDmaCmdId] >>
                 \o DmaExtraDataFor_SameChunk(cmds, i + 1, agentAndStripeToChunk, following,
                                              firstDmaCmdId)
            ELSE DmaExtraDataFor_SameChunk(cmds, i + 1, agentAndStripeToChunk, nextDmaCmdId,
                                           firstDmaCmdId)

\* The register values of the DMA commands of one queue: every chunk of a
\* stripe gets the next chunk id of its agent and stripe, and every command
\* the next DMA command id.
RECURSIVE DmaExtraDataFor(_, _, _, _, _)
DmaExtraDataFor(cmds, i, agentAndStripeToChunk, nextDmaCmdId, firstDmaCmdId) ==
    IF i > Len(cmds) THEN << >>
    ELSE LET c == cmds[i]
             key == << c.agentId, c.stripeId >>
             chunkId == MapLookup(agentAndStripeToChunk, key)
             following == NextDmaCmdId(nextDmaCmdId, firstDmaCmdId)
         IN IF c.type \in {"LoadIfmStripe", "StoreOfmStripe"}
            THEN << [agentId |-> c.agentId, stripeId |-> c.stripeId, chunkId |-> chunkId,
                     dmaCmdId |-> nextDmaCmdId] >>
                 \o DmaExtraDataFor(cmds, i + 1, MapStore(agentAndStripeToChunk, key, chunkId + 1),
                                    following, firstDmaCmdId)
            ELSE IF c.type \in {"LoadWgtStripe", "LoadPleCode"}
            THEN << [agentId |-> c.agentId, stripeId |-> c.stripeId, chunkId |-> 0,
                     dmaCmdId |-> nextDmaCmdId] >>
                 \o DmaExtraDataFor(cmds, i + 1, agentAndStripeToChunk, following, firstDmaCmdId)
            ELSE DmaExtraDataFor(cmds, i + 1, agentAndStripeToChunk, nextDmaCmdId, firstDmaCmdId)

\* The Agent of the command stream made of an AgentDescAndDeps.
CommandStreamAgent(agentAndDeps) ==
    [numStripesTotal |-> agentAndDeps.agent.numStripesTotal,
     type |-> agentAndDeps.agent.type,
     data |-> agentAndDeps.agent]

\* The commands of the command stream.
CascadeCommand(agents, commands, extraData) ==
    [opcode |-> "CASCADE", bufferId |-> 0,
     agents |-> [i \in 1..Len(agents) |-> CommandStreamAgent(agents[i])],
     commands |-> commands, dmaExtraData |-> extraData]
DumpDramCommand(bufferId) ==
    [opcode |-> "DUMP_DRAM", bufferId |-> bufferId,
     agents |-> << >>, commands |-> [q \in Queues |-> << >>], dmaExtraData |-> << >>]

\* The orders in which a loop can meet the elements of an unordered set.
Orderings(S) ==
    { f \in [1..Cardinality(S) -> S] : \A i, j \in 1..Cardinality(S) : f[i] = f[j] => i = j }

\* The DUMP_DRAM commands of the intermediate buffers, in an order in which
\* the loop over the std::unordered_map of DramBuffer pointers can meet them:
\* it is the order of the hashes of the addresses of the buffers.
DumpDramCommands(graph, bufIds) ==
    LET intermediate == { b \in DOMAIN bufIds : graph.bufs[b].m_BufferType = "Intermediate" }
    IN { [i \in 1..Len(o) |-> DumpDramCommand(bufIds[o[i]])] : o \in Orderings(intermediate) }

\* Variant: the cascade is added whether the scheduler has failed or not.
EmplacedCommands_Always(failed, commandStream, cascadeCommand, dumps) ==
    Append(commandStream, cascadeCommand) \o dumps

\* What is in the command stream when Generate has added the cascade and
\* the dumps to it; nothing is added when the scheduler has failed.
EmplacedCommands(failed, commandStream, cascadeCommand, dumps) ==
    IF failed THEN commandStream ELSE Append(commandStream, cascadeCommand) \o dumps

\* Variant: the catch block does not return.
PastTheLoop_Caught == status \in {"lifetimes", "failed"}

\* Generate has left the loop without an exception and marked the lifetimes.
PastTheLoop == status = "lifetimes"

\* Generate from the scheduler to the command stream.
GenerateCommands ==
    /\ PastTheLoop
    /\ LET sch == Schedule(m_CommandStreamAgents)
       IN IF sch.failed
          THEN /\ status' = "failed"
               /\ result' = Thrown("Scheduler", "zero stripes")
               /\ m_CommandStream' = EmplacedCommands(TRUE, m_CommandStream, << >>, << >>)
               /\ UNCHANGED << scheduledCommands, dmaExtraData, bufferManagerCommandStream >>
          ELSE /\ status' = "generated"
               /\ scheduledCommands' = sch.commands
               /\ dmaExtraData' = DmaExtraDataFor(sch.commands["DmaRd"], 1, << >>, 0, 0)
                                  \o DmaExtraDataFor(sch.commands["DmaWr"], 1, << >>, 4, 4)
               /\ \E dumps \in (IF m_DumpRam
                                 THEN DumpDramCommands(m_MergedOpGraph, m_DramBufToBufIdMapping)
                                 ELSE { << >> }) :
                      m_CommandStream' =
                          EmplacedCommands(FALSE, m_CommandStream,
                                           CascadeCommand(m_CommandStreamAgents,
                                                          scheduledCommands', dmaExtraData'),
                                           dumps)
               /\ bufferManagerCommandStream' = m_CommandStream'
               /\ result' = Returned(CompiledOpGraph(
                                         CompiledNetworkImpl(m_BufferManager, m_CommandStream'),
                                         m_OpToAgentIdMapping, m_DramBufToBufIdMapping))
    /\ UNCHANGED << core, irq, m_MergedOpGraph, assertsEnabled, m_CommandStreamAgents,
                    m_OpToAgentIdMapping, m_PleKernelToPleLoaderAgentIdMapping,
                    m_FenceOpForIfmS, m_FenceOpForPleL, m_FenceOpForWgtS,
                    m_DramBufToBufIdMapping, m_BufferManager, currentOp, pc, counters,
                    codecVars, m_DumpRam, g_Logger, previous >>

Next == GenerateLoop \/ GenerateLifetimes \/ GenerateCommands

Init == Constructed(Graphs)

Spec == Init /\ [][Next]_vars

\* Generate run twice, by two generators constructed alike, on the graphs of
\* up to MaxSections + 1 sections with one layer at most, and on the graph
\* without ops, with and without the dumps of the intermediate buffers.
RunGraphs == { MkGraph(ss) : ss \in UNION { SectionSeqs(k, 1) : k \in 0..(MaxSections + 1) } }

Ended == status \in {"generated", "failed", "aborted", "crashed"}

\* The first run has ended: what it gave is kept, and a second generator is
\* constructed for the same graph with the same settings.  The buffers of
\* the graph need not be at the addresses they had in the first run.
Rerun ==
    /\ Ended
    /\ ~previous.run
    /\ previous' = [run |-> TRUE, result |-> result, commandStream |-> m_CommandStream]
    /\ Becomes(ConstructedState)
    /\ currentOp' = 1
    /\ scheduledCommands' = [q \in Queues |-> << >>]
    /\ dmaExtraData' = << >>
    /\ m_CommandStream' = << >>
    /\ bufferManagerCommandStream' = << >>
    /\ g_Logger' = << >>
    /\ result' = NoResult
    /\ UNCHANGED << core, irq, m_MergedOpGraph, assertsEnabled, m_DumpRam, pc, counters, codecVars >>

InitRuns == ConstructedWith(RunGraphs, BOOLEAN)

NextRuns == GenerateLoop \/ GenerateLifetimes \/ GenerateCommands \/ Rerun

SpecRuns == InitRuns /\ [][NextRuns]_vars

\* The dependency builder run on the long cascades.
InitLong == Constructed(LongGraphs)

NextLong == GenerateLoop \/ GenerateLifetimes

SpecLong == InitLong /\ [][NextLong]_vars

\* ------------------------------------------------------------------------
\* The hardware executing the command queues
\* ------------------------------------------------------------------------
\* The graphs whose command streams are executed: those of whose sections
\* the stored buffer has as many stripes as the loaded one.
ExecGraphs ==
    { MkGraph(ss) : ss \in { t \in SmallSectionSeqs : \A i \in 1..Len(t) : t[i].ofm = t[i].ifm } }

genAndQueueVars == << core, irq, m_MergedOpGraph, assertsEnabled, m_CommandStreamAgents,
                     m_OpToAgentIdMapping, m_PleKernelToPleLoaderAgentIdMapping,
                     m_FenceOpForIfmS, m_FenceOpForPleL, m_FenceOpForWgtS,
                     m_DramBufToBufIdMapping, m_BufferManager, currentOp, status,
                     scheduledCommands, dmaExtraData, cascade, csbuffer, out, m_DumpRam,
                     emitVars, previous >>

Remaining(q) == pc[q] < Len(scheduledCommands[q])
NextCommand(q) == scheduledCommands[q][pc[q] + 1]
Blocked(q) ==
    /\ Remaining(q)
    /\ NextCommand(q).type = "WaitForCounter"
    /\ counters[NextCommand(q).counterName] < NextCommand(q).counterValue

\* The engine of queue q passes a wait whose counter has reached the value.
ExecuteWait(q) ==
    /\ status = "generated"
    /\ Remaining(q)
    /\ NextCommand(q).type = "WaitForCounter"
    /\ ~Blocked(q)
    /\ pc' = [pc EXCEPT ![q] = @ + 1]
    /\ UNCHANGED << genAndQueueVars, counters >>

\* Variant: the completion is not counted.
ExecuteWork_NotCounted(q) ==
    /\ status = "generated"
    /\ Remaining(q)
    /\ NextCommand(q).type # "WaitForCounter"
    /\ pc' = [pc EXCEPT ![q] = @ + 1]
    /\ UNCHANGED << genAndQueueVars, counters >>

\* The engine of queue q executes its next work command to completion.
ExecuteWork(q) ==
    /\ status = "generated"
    /\ Remaining(q)
    /\ NextCommand(q).type # "WaitForCounter"
    /\ pc' = [pc EXCEPT ![q] = @ + 1]
    /\ counters' = [counters EXCEPT ![q] = @ + 1]
    /\ UNCHANGED genAndQueueVars

Execute == \E q \in Queues : ExecuteWait(q) \/ ExecuteWork(q)

\* Generate followed by the execution of the command stream it returns.  A
\* build with assert returns the same command stream as one without, or
\* none: the command streams of the build without assert are all there are.
InitExec == Constructed(ExecGraphs) /\ ~assertsEnabled

NextExec == GenerateLoop \/ GenerateLifetimes \/ GenerateCommands \/ Execute

SpecExec == InitExec /\ [][NextExec]_vars

\* ------------------------------------------------------------------------
\* The command stream codec
\* ------------------------------------------------------------------------
\* The enumerations, in the order of the switch statements that render them.
AgentTypes == << "IFM_STREAMER", "WGT_STREAMER", "MCE_SCHEDULER", "PLE_LOADER",
                 "PLE_SCHEDULER", "OFM_STREAMER" >>
CounterNames == << "DmaRd", "DmaWr", "Mceif", "MceStripe", "PleCodeLoadedIntoPleSram",
                   "PleStripe" >>
CommandTypes == << "WaitForCounter", "LoadIfmStripe", "LoadWgtStripe", "ProgramMceStripe",
                   "ConfigMceif", "StartMceStripe", "LoadPleCodeIntoSram",
                   "LoadPleCodeIntoPleSram", "StartPleStripe", "StoreOfmStripe" >>
MceOperations == << "CONVOLUTION", "DEPTHWISE_CONVOLUTION", "FULLY_CONNECTED" >>
PleInputModes == << "MCE_ALL_OGS", "MCE_ONE_OG", "SRAM_ONE_INPUT", "SRAM_TWO_INPUTS" >>
PleKernelIds == << "ADDITION_16X16_1", "PASSTHROUGH_8X8_1" >>
Opcodes == << "DUMP_DRAM", "DUMP_SRAM", "CASCADE" >>

\* The enumerator a word read from the binary stands for; a word that is
\* no enumerator stays what it is, and the switch over it takes its default.
Invalid == "Invalid"
EnumOf(names, v) == IF v \in 0..(Len(names) - 1) THEN names[v + 1] ELSE Invalid
\* The word an enumerator is stored as.
EnumValue(names, name) == CHOOSE v \in 0..(Len(names) - 1) : names[v + 1] = name

\* What a std::stringstream holds after an exception was thrown while it
\* was written to: the text up to the throw.
ParseException == "ParseException"
RuntimeError == "std::runtime_error"

UpToThrow(text) ==
    LET thrown == { i \in DOMAIN text : text[i] \in { ParseException, RuntimeError } }
    IN IF thrown = {} THEN text ELSE SubSeq(text, 1, SetMin(thrown))

\* Parse(parent, value, tabs, newline)
ParseValue(value, tabs, newline) ==
    [i \in 1..tabs |-> "    "] \o << value >> \o (IF newline THEN << "\n" >> ELSE << >>)

Digits == << "0", "1", "2", "3", "4", "5", "6", "7", "8", "9", "a", "b", "c", "d", "e", "f" >>

\* IntegersToString<Base>(value), one token for each character.
RECURSIVE IntegersToString(_, _)
IntegersToString(Base, value) ==
    IF value < 0 THEN << "-" >> \o IntegersToString(Base, 0 - value)
    ELSE IF value < Base THEN << Digits[value + 1] >>
    ELSE IntegersToString(Base, value \div Base) \o << Digits[(value % Base) + 1] >>

\* std::to_string
to_string(value) == IntegersToString(10, value)

\* The conversion of the uint32_t argument to the int32_t parameter of
\* ParseAsNum.
CastInt32(value) ==
    IF value > 2147483647 THEN ((value - 2147483647) - 2147483647) - 2 ELSE value

ParseAsHex(value) == << "0x" >> \o IntegersToString(16, value)
ParseAsNum(value) == IntegersToString(10, CastInt32(value))

\* An element on a line of its own: opening tag, value, closing tag.
Element(open, value, close) ==
    ParseValue(open, 4, FALSE) \o value \o ParseValue(close, 0, TRUE)

\* Parse of an enumerator.
ParseEnum(names, value) ==
    IF value \in { names[i] : i \in DOMAIN names }
    THEN ParseValue(value, 0, FALSE)
    ELSE << ParseException >>

PleKernelId2String(pleKernelId) == pleKernelId

\* Parse(parent, ifms); of the registers, DMA_COMP_CONFIG0 stands for all.
ParseIfmS(ifms) ==
    ParseValue("<IFM_STREAMER>", 3, TRUE)
    \o Element("<BUFFER_ID>", ParseAsNum(ifms.bufferId), "</BUFFER_ID>")
    \o Element("<DMA_COMP_CONFIG0>", ParseAsHex(ifms.DMA_COMP_CONFIG0), "</DMA_COMP_CONFIG0>")
    \o ParseValue("</IFM_STREAMER>", 3, TRUE)

ParseOfmS(ofms) ==
    ParseValue("<OFM_STREAMER>", 3, TRUE)
    \o Element("<BUFFER_ID>", ParseAsNum(ofms.bufferId), "</BUFFER_ID>")
    \o Element("<DMA_COMP_CONFIG0>", ParseAsHex(ofms.DMA_COMP_CONFIG0), "</DMA_COMP_CONFIG0>")
    \o ParseValue("</OFM_STREAMER>", 3, TRUE)

ParseWgtS(wgts) ==
    ParseValue("<WGT_STREAMER>", 3, TRUE)
    \o Element("<BUFFER_ID>", ParseAsNum(wgts.bufferId), "</BUFFER_ID>")
    \o ParseValue("</WGT_STREAMER>", 3, TRUE)

ParseMceOperation(value) == ParseEnum(MceOperations, value)

\* Parse(parent, mces); of the registers, ACTIVATION_CONFIG stands for all.
ParseMceS(mces) ==
    ParseValue("<MCE_SCHEDULER>", 3, TRUE)
    \o Element("<MCE_OP_MODE>", ParseMceOperation(mces.mceOpMode), "</MCE_OP_MODE>")
    \o Element("<ACTIVATION_CONFIG>", ParseAsHex(mces.ACTIVATION_CONFIG), "</ACTIVATION_CONFIG>")
    \o ParseValue("</MCE_SCHEDULER>", 3, TRUE)

ParsePleL(plel) ==
    ParseValue("<PLE_LOADER>", 3, TRUE)
    \o Element("<PLE_KERNEL_ID>", ParseValue(PleKernelId2String(plel.pleKernelId), 0, FALSE),
               "</PLE_KERNEL_ID>")
    \o ParseValue("</PLE_LOADER>", 3, TRUE)

ParsePleInputMode(value) == ParseEnum(PleInputModes, value)

ParsePleS(ples) ==
    ParseValue("<PLE_SCHEDULER>", 3, TRUE)
    \o Element("<INPUT_MODE>", ParsePleInputMode(ples.inputMode), "</INPUT_MODE>")
    \o Element("<PLE_KERNEL_SRAM_ADDR>", ParseAsNum(ples.pleKernelSramAddr),
               "</PLE_KERNEL_SRAM_ADDR>")
    \o ParseValue("</PLE_SCHEDULER>", 3, TRUE)

\* Parse(parent, data) of an Agent: numStripesTotal is not written.
ParseAgent(data) ==
    CASE data.type = "IFM_STREAMER" -> ParseIfmS(data.ifm)
      [] data.type = "WGT_STREAMER" -> ParseWgtS(data.wgt)
      [] data.type = "MCE_SCHEDULER" -> ParseMceS(data.mce)
      [] data.type = "PLE_LOADER" -> ParsePleL(data.pleL)
      [] data.type = "PLE_SCHEDULER" -> ParsePleS(data.pleS)
      [] data.type = "OFM_STREAMER" -> ParseOfmS(data.ofm)
      [] OTHER -> << ParseException >>

CounterNameToString(c) ==
    IF c \in { CounterNames[i] : i \in DOMAIN CounterNames } THEN c ELSE ParseException

ParseWaitForCounterCommand(waitCommand) ==
    ParseValue("<WAIT_FOR_COUNTER_COMMAND>", 3, TRUE)
    \o Element("<COUNTER_NAME>",
               ParseValue(CounterNameToString(waitCommand.counterName), 0, FALSE),
               "</COUNTER_NAME>")
    \o Element("<COUNTER_VALUE>", ParseAsNum(waitCommand.counterValue), "</COUNTER_VALUE>")
    \o ParseValue("</WAIT_FOR_COUNTER_COMMAND>", 3, TRUE)

CommandTypeToString(t) ==
    IF t \in { CommandTypes[i] : i \in DOMAIN CommandTypes } THEN t ELSE RuntimeError

\* Parse(parent, dmaCommand); of the registers, DMA_CMD stands for all.
ParseDmaCommand(dmaCommand) ==
    ParseValue("<!-- Command type is ", 3, FALSE)
    \o << CommandTypeToString(dmaCommand.type), " -->", "\n" >>
    \o ParseValue("<DMA_COMMAND>", 3, TRUE)
    \o Element("<AGENT_ID>", ParseAsNum(dmaCommand.agentId), "</AGENT_ID>")
    \o Element("<DRAM_OFFSET>", ParseAsHex(dmaCommand.m_DramOffset), "</DRAM_OFFSET>")
    \o Element("<DMA_CMD>", ParseAsHex(dmaCommand.DMA_CMD), "</DMA_CMD>")
    \o ParseValue("</DMA_COMMAND>", 3, TRUE)

\* Parse(parent, programMceCommand); of the registers, IFM_ROW_STRIDE stands
\* for all.
ParseProgramMceStripeCommand(programMceCommand) ==
    ParseValue("<PROGRAM_MCE_STRIPE_COMMAND>", 3, TRUE)
    \o Element("<AGENT_ID>", ParseAsNum(programMceCommand.agentId), "</AGENT_ID>")
    \o Element("<IFM_ROW_STRIDE>", ParseAsHex(programMceCommand.IFM_ROW_STRIDE),
               "</IFM_ROW_STRIDE>")
    \o ParseValue("</PROGRAM_MCE_STRIPE_COMMAND>", 3, TRUE)

ParseConfigMceifCommand(configMceifCommand) ==
    ParseValue("<CONFIG_MCEIF_COMMAND>", 3, TRUE)
    \o Element("<AGENT_ID>", ParseAsNum(configMceifCommand.agentId), "</AGENT_ID>")
    \o ParseValue("</CONFIG_MCEIF_COMMAND>", 3, TRUE)

ParseStartMceStripeCommand(startMceStripeCommand) ==
    ParseValue("<START_MCE_STRIPE_COMMAND>", 3, TRUE)
    \o Element("<AGENT_ID>", ParseAsNum(startMceStripeCommand.agentId), "</AGENT_ID>")
    \o Element("<CE_ENABLES>", ParseAsNum(startMceStripeCommand.CE_ENABLES), "</CE_ENABLES>")
    \o ParseValue("</START_MCE_STRIPE_COMMAND>", 3, TRUE)

ParseLoadPleCodeIntoPleSramCommand(c) ==
    ParseValue("<LOAD_PLE_CODE_INTO_PLE_SRAM_COMMAND>", 3, TRUE)
    \o Element("<AGENT_ID>", ParseAsNum(c.agentId), "</AGENT_ID>")
    \o ParseValue("</LOAD_PLE_CODE_INTO_PLE_SRAM_COMMAND>", 3, TRUE)

\* Parse(parent, startPleStripeCommand); SCRATCH has one register here.
ParseStartPleStripeCommand(startPleStripeCommand) ==
    ParseValue("<START_PLE_STRIPE_COMMAND>", 3, TRUE)
    \o Element("<AGENT_ID>", ParseAsNum(startPleStripeCommand.agentId), "</AGENT_ID>")
    \o Element("<SCRATCH0>", ParseAsHex(startPleStripeCommand.SCRATCH[1]), "</SCRATCH0>")
    \o ParseValue("</START_PLE_STRIPE_COMMAND>", 3, TRUE)

\* Parse(parent, cmd) of a Command
ParseCommand_Untyped(cmd) ==
    ParseValue("<!-- Command type is ", 3, FALSE) \o << CommandTypeToString(cmd.type), " -->", "\n" >>
ParseCommand(cmd) ==
    CASE cmd.type = "WaitForCounter" -> ParseWaitForCounterCommand(cmd)
      [] cmd.type = "LoadIfmStripe" -> ParseDmaCommand(cmd)
      [] cmd.type = "LoadWgtStripe" -> ParseDmaCommand(cmd)
      [] cmd.type = "ProgramMceStripe" -> ParseProgramMceStripeCommand(cmd)
      [] cmd.type = "ConfigMceif" -> ParseConfigMceifCommand(cmd)
      [] cmd.type = "StartMceStripe" -> ParseStartMceStripeCommand(cmd)
      [] cmd.type = "LoadPleCodeIntoSram" -> ParseDmaCommand(cmd)
      [] cmd.type = "LoadPleCodeIntoPleSram" -> ParseLoadPleCodeIntoPleSramCommand(cmd)
      [] cmd.type = "StartPleStripe" -> ParseStartPleStripeCommand(cmd)
      [] cmd.type = "StoreOfmStripe" -> ParseDmaCommand(cmd)
      [] OTHER -> << ParseException >>

\* The layout of the binary, in words.  A Cascade begins with the offset
\* and the number of its agents and of the commands of each of its four
\* lists; an Agent is its type, numStripesTotal and the data of its type; a
\* Command is its size, its type and the fields of its type.
CommandStreamVersion == << 6, 1, 0 >>
CascadeHeaderSize == 10
AgentSize == 4

AgentData(a) ==
    CASE a.type = "IFM_STREAMER" -> << a.ifm.bufferId, a.ifm.DMA_COMP_CONFIG0 >>
      [] a.type = "WGT_STREAMER" -> << a.wgt.bufferId, 0 >>
      [] a.type = "MCE_SCHEDULER" -> << EnumValue(MceOperations, a.mce.mceOpMode),
                                        a.mce.ACTIVATION_CONFIG >>
      [] a.type = "PLE_LOADER" -> << EnumValue(PleKernelIds, a.pleL.pleKernelId), 0 >>
      [] a.type = "PLE_SCHEDULER" -> << EnumValue(PleInputModes, a.pleS.inputMode),
                                        a.pleS.pleKernelSramAddr >>
      [] a.type = "OFM_STREAMER" -> << a.ofm.bufferId, a.ofm.DMA_COMP_CONFIG0 >>

\* Variant: every agent is tagged as the first of the agent types.
EncodeAgent_Untagged(a) == << 0, a.numStripesTotal >> \o AgentData(a)

EncodeAgent(a) == << EnumValue(AgentTypes, a.type), a.numStripesTotal >> \o AgentData(a)

CommandFields(c) ==
    CASE c.type = "WaitForCounter" -> << EnumValue(CounterNames, c.counterName), c.counterValue >>
      [] c.type \in { "LoadIfmStripe", "LoadWgtStripe", "LoadPleCodeIntoSram", "StoreOfmStripe" }
           -> << c.agentId, c.m_DramOffset, c.DMA_CMD >>
      [] c.type = "ProgramMceStripe" -> << c.agentId, c.IFM_ROW_STRIDE >>
      [] c.type = "ConfigMceif" -> << c.agentId >>
      [] c.type = "StartMceStripe" -> << c.agentId, c.CE_ENABLES >>
      [] c.type = "LoadPleCodeIntoPleSram" -> << c.agentId >>
      [] c.type = "StartPleStripe" -> << c.agentId, c.SCRATCH[1] >>

EncodeCommand(c) ==
    << 2 + Len(CommandFields(c)), EnumValue(CommandTypes, c.type) >> \o CommandFields(c)

RECURSIVE Flatten(_)
Flatten(ss) == IF ss = << >> THEN << >> ELSE Head(ss) \o Flatten(Tail(ss))

EncodeCommands(cs) == Flatten([i \in DOMAIN cs |-> EncodeCommand(cs[i])])

\* AddCascade(csbuffer, agents, dmaRdCommands, dmaWrCommands, mceCommands,
\* pleCommands) on an empty CommandStreamBuffer
AddCascade(agents, dmaRdCommands, dmaWrCommands, mceCommands, pleCommands) ==
    LET a == Flatten([i \in DOMAIN agents |-> EncodeAgent(agents[i])])
        rd == EncodeCommands(dmaRdCommands)
        wr == EncodeCommands(dmaWrCommands)
        mce == EncodeCommands(mceCommands)
        ple == EncodeCommands(pleCommands)
        agentsOffset == CascadeHeaderSize
        rdOffset == agentsOffset + Len(a)
        wrOffset == rdOffset + Len(rd)
        mceOffset == wrOffset + Len(wr)
        pleOffset == mceOffset + Len(mce)
    IN CommandStreamVersion
       \o << EnumValue(Opcodes, "CASCADE") >>
       \o << agentsOffset, Len(agents), rdOffset, Len(dmaRdCommands), wrOffset,
             Len(dmaWrCommands), mceOffset, Len(mceCommands), pleOffset, Len(pleCommands) >>
       \o a \o rd \o wr \o mce \o ple

\* The accessors of CommandStream and of Cascade; a pointer into a Cascade
\* is the offset from its beginning.
GetVersionMajor(cstream) == cstream[1]
GetVersionMinor(cstream) == cstream[2]
GetVersionPatch(cstream) == cstream[3]
m_Opcode(cstream) == EnumOf(Opcodes, cstream[4])
m_Data(cstream) == SubSeq(cstream, 5, Len(cstream))
GetAgentsArray(value) == value[1]
NumAgents(value) == value[2]
CommandsBegin(value, q) ==
    CASE q = "DmaRd" -> value[3] [] q = "DmaWr" -> value[5]
      [] q = "Mce" -> value[7] [] q = "Ple" -> value[9]
NumCommands(value, q) ==
    CASE q = "DmaRd" -> value[4] [] q = "DmaWr" -> value[6]
      [] q = "Mce" -> value[8] [] q = "Ple" -> value[10]
GetSize(value, c) == value[c + 1]

\* The Agent at a pointer: agentsArray[agentId]
AgentAt(value, p) ==
    LET type == EnumOf(AgentTypes, value[p + 1])
        w0 == value[p + 3]
        w1 == value[p + 4]
        common == [numStripesTotal |-> value[p + 2], type |-> type]
    IN CASE type = "IFM_STREAMER" ->
              common @@ [ifm |-> [bufferId |-> w0, DMA_COMP_CONFIG0 |-> w1]]
         [] type = "WGT_STREAMER" -> common @@ [wgt |-> [bufferId |-> w0]]
         [] type = "MCE_SCHEDULER" ->
              common @@ [mce |-> [mceOpMode |-> EnumOf(MceOperations, w0),
                                  ACTIVATION_CONFIG |-> w1]]
         [] type = "PLE_LOADER" -> common @@ [pleL |-> [pleKernelId |-> EnumOf(PleKernelIds, w0)]]
         [] type = "PLE_SCHEDULER" ->
              common @@ [pleS |-> [inputMode |-> EnumOf(PleInputModes, w0),
                                   pleKernelSramAddr |-> w1]]
         [] type = "OFM_STREAMER" ->
              common @@ [ofm |-> [bufferId |-> w0, DMA_COMP_CONFIG0 |-> w1]]
         [] OTHER -> common

\* The Command at a pointer, as the static_cast of Parse(parent, cmd) to the
\* struct of its type sees it.
CommandAt(value, c) ==
    LET type == EnumOf(CommandTypes, value[c + 2])
    IN CASE type = "WaitForCounter" ->
              [type |-> type, counterName |-> EnumOf(CounterNames, value[c + 3]),
               counterValue |-> value[c + 4]]
         [] type \in { "LoadIfmStripe", "LoadWgtStripe", "LoadPleCodeIntoSram",
                       "StoreOfmStripe" } ->
              [type |-> type, agentId |-> value[c + 3], m_DramOffset |-> value[c + 4],
               DMA_CMD |-> value[c + 5]]
         [] type = "ProgramMceStripe" ->
              [type |-> type, agentId |-> value[c + 3], IFM_ROW_STRIDE |-> value[c + 4]]
         [] type = "StartMceStripe" ->
              [type |-> type, agentId |-> value[c + 3], CE_ENABLES |-> value[c + 4]]
         [] type = "StartPleStripe" ->
              [type |-> type, agentId |-> value[c + 3], SCRATCH |-> << value[c + 4] >>]
         [] type \in { "ConfigMceif", "LoadPleCodeIntoPleSram" } ->
              [type |-> type, agentId |-> value[c + 3]]
         [] OTHER -> [type |-> type]

\* Variant: the pointer is not moved.
getNextCommand_Same(value, c) == c

\* Moves command pointer to next Command (each Command has different length)
getNextCommand(value, c) == c + GetSize(value, c)

RECURSIVE ParseAgents(_, _)
ParseAgents(value, agentId) ==
    IF agentId < NumAgents(value)
    THEN ParseValue("<!-- Agent ", 3, FALSE) \o to_string(agentId) \o << " -->", "\n" >>
         \o ParseAgent(AgentAt(value, GetAgentsArray(value) + agentId * AgentSize))
         \o ParseAgents(value, agentId + 1)
    ELSE << >>

\* One of the four loops of Parse(parent, value) over a list of commands.
RECURSIVE ParseCommands(_, _, _, _)
ParseCommands(value, q, commandsBegin, commandIdx) ==
    IF commandIdx < NumCommands(value, q)
    THEN ParseValue("<!-- ", 3, FALSE) \o << q, " Command " >> \o to_string(commandIdx)
         \o << " -->", "\n" >>
         \o ParseCommand(CommandAt(value, commandsBegin))
         \o ParseCommands(value, q, getNextCommand(value, commandsBegin), commandIdx + 1)
    ELSE << >>

\* Parse(parent, value) of a Cascade
ParseCascade(value) ==
    ParseValue("<CASCADE>", 1, TRUE)
    \o ParseValue("<AGENTS>", 2, TRUE)
    \o ParseAgents(value, 0)
    \o ParseValue("</AGENTS>", 2, TRUE)
    \o ParseValue("<DMA_RD_COMMANDS>", 2, TRUE)
    \o ParseCommands(value, "DmaRd", CommandsBegin(value, "DmaRd"), 0)
    \o ParseValue("</DMA_RD_COMMANDS>", 2, TRUE)
    \o ParseValue("<DMA_WR_COMMANDS>", 2, TRUE)
    \o ParseCommands(value, "DmaWr", CommandsBegin(value, "DmaWr"), 0)
    \o ParseValue("</DMA_WR_COMMANDS>", 2, TRUE)
    \o ParseValue("<MCE_COMMANDS>", 2, TRUE)
    \o ParseCommands(value, "Mce", CommandsBegin(value, "Mce"), 0)
    \o ParseValue("</MCE_COMMANDS>", 2, TRUE)
    \o ParseValue("<PLE_COMMANDS>", 2, TRUE)
    \o ParseCommands(value, "Ple", CommandsBegin(value, "Ple"), 0)
    \o ParseValue("</PLE_COMMANDS>", 2, TRUE)
    \o ParseValue("</CASCADE>", 1, TRUE)

\* The beginning of the document, with the version numbers.
StreamHeader(major, minor, patch) ==
    << "<?xml version=\"1.0\" encoding=\"utf-8\"?>\n" >>
    \o << "<STREAM VERSION_MAJOR=", "\"" >> \o to_string(major) \o << "\"" >>
    \o << " VERSION_MINOR=", "\"" >> \o to_string(minor) \o << "\"" >>
    \o << " VERSION_PATCH=", "\"" >> \o to_string(patch) \o << "\">\n" >>

\* ParseBinary(cstream, output) of a stream of one command; the elements of
\* the two commands that dump memory are left out.
ParseBinary(cstream) ==
    StreamHeader(GetVersionMajor(cstream), GetVersionMinor(cstream), GetVersionPatch(cstream))
    \o << "    <!-- Command " >> \o to_string(0) \o << " -->\n" >>
    \o (CASE m_Opcode(cstream) = "DUMP_DRAM" -> ParseValue("<DUMP_DRAM>", 1, TRUE)
          [] m_Opcode(cstream) = "DUMP_SRAM" -> ParseValue("<DUMP_SRAM>", 1, TRUE)
          [] m_Opcode(cstream) = "CASCADE" -> ParseCascade(m_Data(cstream))
          [] OTHER -> << ParseException >>)
    \o << "</STREAM>\n" >>

\* CommandStream::IsValid(): the version of the header is the version of the
\* library. The constructor of CommandStream reports nothing; its user asks.
IsValid(cstream) ==
    << GetVersionMajor(cstream), GetVersionMinor(cstream), GetVersionPatch(cstream) >>
        = CommandStreamVersion

\* ParseBinary(cstream, output) of a stream whose range of commands is
\* empty: what the loop over a CommandStream that is not valid may be.
ParseBinaryOfNone(cstream) ==
    StreamHeader(GetVersionMajor(cstream), GetVersionMinor(cstream), GetVersionPatch(cstream))
    \o << "</STREAM>\n" >>

\* The agents and commands the cascades given to the codec are made of.
WaitForCounterCommand(counterName, counterValue) ==
    [type |-> "WaitForCounter", counterName |-> counterName, counterValue |-> counterValue]
DmaCommand(type, agentId, m_DramOffset, DMA_CMD) ==
    [type |-> type, agentId |-> agentId, m_DramOffset |-> m_DramOffset, DMA_CMD |-> DMA_CMD]

CodecAgents ==
    { [numStripesTotal |-> 1, type |-> "IFM_STREAMER",
       ifm |-> [bufferId |-> 1, DMA_COMP_CONFIG0 |-> 4096]],
      [numStripesTotal |-> 2, type |-> "WGT_STREAMER", wgt |-> [bufferId |-> 2]],
      [numStripesTotal |-> 2, type |-> "MCE_SCHEDULER",
       mce |-> [mceOpMode |-> "DEPTHWISE_CONVOLUTION", ACTIVATION_CONFIG |-> 255]],
      [numStripesTotal |-> 1, type |-> "PLE_LOADER",
       pleL |-> [pleKernelId |-> "PASSTHROUGH_8X8_1"]],
      [numStripesTotal |-> 2, type |-> "PLE_SCHEDULER",
       pleS |-> [inputMode |-> "SRAM_ONE_INPUT", pleKernelSramAddr |-> 2147483647]],
      [numStripesTotal |-> 300, type |-> "OFM_STREAMER",
       ofm |-> [bufferId |-> 3, DMA_COMP_CONFIG0 |-> 0]] }

CodecCommands(q) ==
    CASE q = "DmaRd" ->
           { WaitForCounterCommand("DmaWr", 1),
             WaitForCounterCommand("MceStripe", 2147483647),
             DmaCommand("LoadIfmStripe", 0, 0, 255),
             DmaCommand("LoadWgtStripe", 1, 4096, 16),
             DmaCommand("LoadPleCodeIntoSram", 3, 43981, 1) }
      [] q = "DmaWr" ->
           { WaitForCounterCommand("PleStripe", 2),
             DmaCommand("StoreOfmStripe", 5, 2147483647, 4) }
      [] q = "Mce" ->
           { WaitForCounterCommand("DmaRd", 10),
             [type |-> "ProgramMceStripe", agentId |-> 2, IFM_ROW_STRIDE |-> 48],
             [type |-> "ConfigMceif", agentId |-> 2],
             [type |-> "StartMceStripe", agentId |-> 2, CE_ENABLES |-> 16] }
      [] q = "Ple" ->
           { WaitForCounterCommand("Mceif", 1),
             WaitForCounterCommand("PleCodeLoadedIntoPleSram", 1),
             [type |-> "LoadPleCodeIntoPleSram", agentId |-> 4],
             [type |-> "StartPleStripe", agentId |-> 4, SCRATCH |-> << 61453 >>] }

\* The four command lists that hold at most budget commands together.
CommandLists(budget) ==
    UNION { UNION { UNION {
        { [q \in Queues |-> CASE q = "DmaRd" -> rd [] q = "DmaWr" -> wr
                              [] q = "Mce" -> mce [] q = "Ple" -> ple]
          : ple \in SeqsUpTo(CodecCommands("Ple"), budget - Len(rd) - Len(wr) - Len(mce)) }
        : mce \in SeqsUpTo(CodecCommands("Mce"), budget - Len(rd) - Len(wr)) }
        : wr \in SeqsUpTo(CodecCommands("DmaWr"), budget - Len(rd)) }
        : rd \in SeqsUpTo(CodecCommands("DmaRd"), budget) }

Cascades ==
    { [agents |-> a, commands |-> c] : a \in SeqsUpTo(CodecAgents, MaxAgents),
                                       c \in CommandLists(MaxCommands) }

codecIdleVars == << core, irq, m_MergedOpGraph, assertsEnabled, m_CommandStreamAgents,
                    m_OpToAgentIdMapping, m_PleKernelToPleLoaderAgentIdMapping,
                    m_FenceOpForIfmS, m_FenceOpForPleL, m_FenceOpForWgtS,
                    m_DramBufToBufIdMapping, m_BufferManager, currentOp, status,
                    scheduledCommands, dmaExtraData, pc, counters, m_DumpRam, emitVars,
                    previous >>

\* AddCascade writes the cascade to the empty CommandStreamBuffer.
Encode ==
    /\ csbuffer = << >>
    /\ csbuffer' = AddCascade(cascade.agents, cascade.commands["DmaRd"],
                              cascade.commands["DmaWr"], cascade.commands["Mce"],
                              cascade.commands["Ple"])
    /\ UNCHANGED << codecIdleVars, cascade, out >>

\* BinaryParser::BinaryParser(data) reads the words of the buffer, and
\* writes the text to out, up to an exception if one is thrown.
BinaryParser ==
    /\ csbuffer # << >>
    /\ out = << >>
    /\ out' \in { UpToThrow(ParseBinary(csbuffer)) }
                 \cup (IF IsValid(csbuffer) THEN {}
                       ELSE { UpToThrow(ParseBinaryOfNone(csbuffer)) })
    /\ UNCHANGED << codecIdleVars, cascade, csbuffer >>

\* The codec on the cascades, with no generator at work.
InitCodec ==
    /\ DriverNotLoaded
    /\ m_MergedOpGraph = MkGraph(<< >>)
    /\ assertsEnabled = FALSE
    /\ m_DumpRam = FALSE
    /\ m_CommandStream = << >>
    /\ bufferManagerCommandStream = << >>
    /\ g_Logger = << >>
    /\ result = NoResult
    /\ previous = NoOutcome
    /\ m_CommandStreamAgents = << >>
    /\ m_OpToAgentIdMapping = << >>
    /\ m_PleKernelToPleLoaderAgentIdMapping = << >>
    /\ m_FenceOpForIfmS = Null
    /\ m_FenceOpForPleL = Null
    /\ m_FenceOpForWgtS = Null
    /\ m_DramBufToBufIdMapping = << >>
    /\ m_BufferManager = << >>
    /\ status = "running"
    /\ currentOp = 1
    /\ scheduledCommands = [q \in Queues |-> << >>]
    /\ dmaExtraData = << >>
    /\ pc = [q \in Queues |-> 0]
    /\ counters = [q \in Queues |-> 0]
    /\ cascade \in Cascades
    /\ csbuffer = << >>
    /\ out = << >>

NextCodec == Encode \/ BinaryParser

SpecCodec == InitCodec /\ [][NextCodec]_vars

\* The text of a cascade rendered from the agents and command lists
\* themselves, not from a binary.
RECURSIVE RenderAgents(_, _)
RenderAgents(agents, agentId) ==
    IF agentId < Len(agents)
    THEN ParseValue("<!-- Agent ", 3, FALSE) \o to_string(agentId) \o << " -->", "\n" >>
         \o ParseAgent(agents[agentId + 1])
         \o RenderAgents(agents, agentId + 1)
    ELSE << >>

RECURSIVE RenderCommands(_, _, _)
RenderCommands(commands, q, commandIdx) ==
    IF commandIdx < Len(commands)
    THEN ParseValue("<!-- ", 3, FALSE) \o << q, " Command " >> \o to_string(commandIdx)
         \o << " -->", "\n" >>
         \o ParseCommand(commands[commandIdx + 1])
         \o RenderCommands(commands, q, commandIdx + 1)
    ELSE << >>

RenderText(x) ==
    StreamHeader(CommandStreamVersion[1], CommandStreamVersion[2], CommandStreamVersion[3])
    \o << "    <!-- Command " >> \o to_string(0) \o << " -->\n" >>
    \o ParseValue("<CASCADE>", 1, TRUE)
    \o ParseValue("<AGENTS>", 2, TRUE)
    \o RenderAgents(x.agents, 0)
    \o ParseValue("</AGENTS>", 2, TRUE)
    \o ParseValue("<DMA_RD_COMMANDS>", 2, TRUE)
    \o RenderCommands(x.commands["DmaRd"], "DmaRd", 0)
    \o ParseValue("</DMA_RD_COMMANDS>", 2, TRUE)
    \o ParseValue("<DMA_WR_COMMANDS>", 2, TRUE)
    \o RenderCommands(x.commands["DmaWr"], "DmaWr", 0)
    \o ParseValue("</DMA_WR_COMMANDS>", 2, TRUE)
    \o ParseValue("<MCE_COMMANDS>", 2, TRUE)
    \o RenderCommands(x.commands["Mce"], "Mce", 0)
    \o ParseValue("</MCE_COMMANDS>", 2, TRUE)
    \o ParseValue("<PLE_COMMANDS>", 2, TRUE)
    \o RenderCommands(x.commands["Ple"], "Ple", 0)
    \o ParseValue("</PLE_COMMANDS>", 2, TRUE)
    \o ParseValue("</CASCADE>", 1, TRUE)
    \o << "</STREAM>\n" >>


\* ------------------------------------------------------------------------
\* Properties of the dependency builder
\* ------------------------------------------------------------------------
Agents == 0..(Len(m_CommandStreamAgents) - 1)
AgentOf(a) == m_CommandStreamAgents[a + 1]
Visited == 1..(currentOp - 1)
DependencyKinds == {"readDependencies", "writeDependencies", "scheduleDependencies"}

\* The op whose visit loads a PLE kernel: an MCE op in front of a PLE op that
\* loads one, or a standalone PLE op that loads one.
LoadsKernel(graph, o) ==
    \/ /\ graph.ops[o].kind = "MceOp"
       /\ graph.ops[GetConsumer(graph, graph.ops[o].output)].m_LoadKernel
    \/ /\ graph.ops[o].kind = "PleOp"
       /\ graph.bufs[graph.ops[o].inputs[1]].m_Location = "Sram"
       /\ graph.ops[o].m_LoadKernel

\* The number of agents created before the agent of op o: one for each op
\* visited before it and one for each kernel load up to it.
AgentsCreatedBefore(graph, o) ==
    (o - 1) + Cardinality({ l \in 1..o : LoadsKernel(graph, l) })

\* C9: the identifier of the agent of every visited op is the number of
\* agents created before it, and the agent list holds one agent for each
\* visited op and one for each kernel load, none created twice.
C9_AgentIdsAreDense ==
    status \in {"running", "lifetimes"} =>
        /\ \A o \in Visited :
              /\ o \in DOMAIN m_OpToAgentIdMapping
              /\ m_OpToAgentIdMapping[o] = AgentsCreatedBefore(m_MergedOpGraph, o)
        /\ Len(m_CommandStreamAgents) =
              Cardinality(Visited)
              + Cardinality({ l \in Visited : LoadsKernel(m_MergedOpGraph, l) })
        /\ \A o1, o2 \in Visited :
              o1 # o2 => m_OpToAgentIdMapping[o1] # m_OpToAgentIdMapping[o2]

C9_Witness ==
    /\ status = "lifetimes"
    /\ Len(m_CommandStreamAgents) >= 6
    /\ \E a \in Agents : AgentOf(a).agent.type = "PLE_LOADER"
    /\ \E o \in Visited :
          m_OpToAgentIdMapping[o] = AgentsCreatedBefore(m_MergedOpGraph, o) /\ m_OpToAgentIdMapping[o] > o

IsPrefix(s, t) == Len(s) <= Len(t) /\ \A i \in 1..Len(s) : t[i] = s[i]

\* C10: a step of the generator leaves every agent already in the list at
\* its position with its type and its stripe count, and only appends to its
\* dependency sets.
C10_AgentsAreImmutable ==
    [][ /\ Len(m_CommandStreamAgents) <= Len(m_CommandStreamAgents')
        /\ \A i \in 1..Len(m_CommandStreamAgents) :
              /\ m_CommandStreamAgents'[i].agent = m_CommandStreamAgents[i].agent
              /\ \A k \in DependencyKinds :
                    IsPrefix(m_CommandStreamAgents[i].deps[k], m_CommandStreamAgents'[i].deps[k])
      ]_vars

C10_Witness ==
    \E a \in Agents :
        /\ a + 3 <= Len(m_CommandStreamAgents)
        /\ Len(AgentOf(a).deps.writeDependencies) >= 1
        /\ Len(AgentOf(a).deps.scheduleDependencies) >= 1
        /\ \E b \in Agents : Len(AgentOf(b).deps.readDependencies) >= 2

\* The distances consumer id - producer id of the edges that the visit of
\* currentOp creates: to the fence it takes, and to the producers of its
\* on-chip inputs.
EdgeDistances ==
    LET graph == m_MergedOpGraph
        op == graph.ops[currentOp]
        n == Len(m_CommandStreamAgents)
        loads == LoadsKernel(graph, currentOp)
        fromDram == op.kind = "DmaOp" /\ graph.bufs[op.inputs[1]].m_Location = "Dram"
        fence == IF fromDram
                 THEN IF graph.bufs[op.inputs[1]].m_Format = "WEIGHT"
                      THEN m_FenceOpForWgtS ELSE m_FenceOpForIfmS
                 ELSE IF loads THEN m_FenceOpForPleL ELSE Null
        self == IF loads THEN n + 1 ELSE n
    IN (IF fence = Null THEN {} ELSE { n - m_OpToAgentIdMapping[fence] })
       \cup (IF fromDram THEN {}
             ELSE { self - m_OpToAgentIdMapping[GetSingleProducer(graph, op.inputs[i])] :
                       i \in 1..Len(op.inputs) })

\* C5: a visit that creates an edge between agents further apart than
\* g_MaxRelativeAgentPosition ends the generation with an error, so that no
\* wrapped relative agent id is stored.
C5_TooFarApartFails ==
    [][ ( /\ status = "running"
          /\ currentOp <= Len(m_MergedOpGraph.ops)
          /\ \E d \in EdgeDistances : d > g_MaxRelativeAgentPosition )
        => status' \in {"failed", "aborted"} ]_vars

\* C6: no stored dependency has relative agent id zero.
C6_NoZeroRelativeAgentId ==
    \A a \in Agents : \A k \in DependencyKinds :
        \A i \in 1..Len(AgentOf(a).deps[k]) : AgentOf(a).deps[k][i].relativeAgentId # 0

\* The agents that read or write the DRAM buffer b: the streamers of the DMA
\* ops that have it as output or as input.
AgentsUsing(graph, b) ==
    { m_OpToAgentIdMapping[o] : o \in GetProducers(graph, b) \cup GetConsumers(graph, b) }

LifetimeOf(b) == m_BufferManager[m_DramBufToBufIdMapping[b] + 1].lifetime

\* C7: the lifetime of every intermediate DRAM buffer starts at or before,
\* and ends at or after, the agent id of every agent that reads or writes it.
C7_LifetimeCoversAgents ==
    status = "lifetimes" =>
        \A b \in IntermediateDramBuffers(m_MergedOpGraph) :
            \A a \in AgentsUsing(m_MergedOpGraph, b) :
                LifetimeOf(b)[1] <= a /\ a <= LifetimeOf(b)[2]

\* ------------------------------------------------------------------------
\* Properties of the scheduler and of the execution
\* ------------------------------------------------------------------------
IsWork(c) == c.type # "WaitForCounter"

WorkCommandsIn(q) == { i \in 1..Len(scheduledCommands[q]) : IsWork(scheduledCommands[q][i]) }
WaitsIn(q) == { i \in 1..Len(scheduledCommands[q]) : ~IsWork(scheduledCommands[q][i]) }

\* The positions in its queue of the work commands of stripe k of agent a.
StripeCommands(a, k) ==
    LET q == QueueOf(AgentOf(a).agent.type)
    IN { i \in WorkCommandsIn(q) : /\ scheduledCommands[q][i].agentId = a
                                   /\ scheduledCommands[q][i].stripeId = k }

Started(a, k) == \E i \in StripeCommands(a, k) : i <= pc[QueueOf(AgentOf(a).agent.type)]

Completed(a, k) ==
    /\ StripeCommands(a, k) # {}
    /\ \A i \in StripeCommands(a, k) : i <= pc[QueueOf(AgentOf(a).agent.type)]

AllExecuted == \A q \in Queues : ~Remaining(q)

C2_ReadAfterWrite ==
    status = "generated" =>
        \A a \in Agents : \A k \in 0..(AgentOf(a).agent.numStripesTotal - 1) :
            Started(a, k) =>
                \A need \in NeededStripes(m_CommandStreamAgents, a, k) :
                    Completed(need.agentId, need.stripeId)

C2_Witness ==
    /\ status = "generated"
    /\ \E a \in Agents :
          /\ AgentOf(a).agent.numStripesTotal > 1
          /\ Started(a, 1)
          /\ ~AllExecuted
          /\ \E need \in NeededStripes(m_CommandStreamAgents, a, 1) :
                /\ need.stripeId > 0
                /\ QueueOf(AgentOf(need.agentId).agent.type) # QueueOf(AgentOf(a).agent.type)
                /\ Completed(need.agentId, need.stripeId)

ChunksOf(a, k) == { i \in 1..Len(dmaExtraData) : /\ dmaExtraData[i].agentId = a
                                                 /\ dmaExtraData[i].stripeId = k }

IsDma(a) == AgentOf(a).agent.type \in {"IFM_STREAMER", "OFM_STREAMER"}

Failed == status \in {"failed", "aborted", "crashed"}

\* C11: when the compilation has failed at an op, or an error has been
\* logged, the command stream of the generator holds no command, cascade or
\* other, and the buffer manager has been given no command stream.
C11_NoPartialCommandStream ==
    (Failed \/ g_Logger # << >>) =>
        m_CommandStream = << >> /\ bufferManagerCommandStream = << >>

C11_Witness ==
    /\ status = "failed"
    /\ m_DumpRam
    /\ Len(m_CommandStreamAgents) >= 2
    /\ C11_NoPartialCommandStream

\* The loop of Generate has met an op that is no DmaOp, MceOp or PleOp.
UnsupportedOpMet ==
    /\ status = "failed"
    /\ currentOp > 1
    /\ m_MergedOpGraph.ops[currentOp - 1].kind \notin {"DmaOp", "MceOp", "PleOp"}

\* C12: when the graph holds an op of an unsupported kind, the caller of
\* Generate gets a NotSupportedException, a typed error, whose text names
\* the op that was met.
C12_UnsupportedOpRaisesTypedError ==
    UnsupportedOpMet =>
        /\ result.kind = "thrown"
        /\ result.exception = "NotSupportedException"
        /\ result.what # NotSupportedWhat


\* ------------------------------------------------------------------------
\* The codec on binaries that AddCascade did not write
\* ------------------------------------------------------------------------
\* The pointers to the n commands of a list that begins at c.
RECURSIVE CommandPointers(_, _, _)
CommandPointers(value, c, n) ==
    IF n = 0 THEN {} ELSE {c} \cup CommandPointers(value, getNextCommand(value, c), n - 1)

\* The words of the binary that Parse switches over: the opcode, the type of
\* each agent, the type of each command and the counter name of each
\* WaitForCounterCommand; a word of the Cascade is behind the command header.
EnumWords(cstream) ==
    LET value == m_Data(cstream)
        commands == UNION { CommandPointers(value, CommandsBegin(value, q), NumCommands(value, q))
                            : q \in Queues }
    IN {4}
       \cup { 4 + GetAgentsArray(value) + agentId * AgentSize + 1
              : agentId \in 0..(NumAgents(value) - 1) }
       \cup { 4 + c + 2 : c \in commands }
       \cup { 4 + c + 3 : c \in { w \in commands :
                                    EnumOf(CommandTypes, value[w + 2]) = "WaitForCounter" } }

\* The words of the version header.
VersionWords == DOMAIN CommandStreamVersion

\* Words that are the enumerator of no enumeration and no number of the
\* version of the library.
CorruptWords == { 10, 255 }

\* The bytes that BinaryParser reads from its input are not those that
\* AddCascade wrote: a word of the version or a word that names an
\* enumerator is another.
Corrupt ==
    /\ out = << >>
    /\ csbuffer # << >>
    /\ csbuffer = AddCascade(cascade.agents, cascade.commands["DmaRd"],
                             cascade.commands["DmaWr"], cascade.commands["Mce"],
                             cascade.commands["Ple"])
    /\ \E i \in EnumWords(csbuffer) \cup VersionWords, v \in CorruptWords :
          csbuffer' = [csbuffer EXCEPT ![i] = v]
    /\ UNCHANGED << codecIdleVars, cascade, out >>

InitCorrupt ==
    /\ InitCodec
    /\ Len(cascade.commands["DmaRd"]) + Len(cascade.commands["DmaWr"])
         + Len(cascade.commands["Mce"]) + Len(cascade.commands["Ple"]) <= 1

NextCorrupt == Encode \/ Corrupt \/ BinaryParser

SpecCorrupt == InitCorrupt /\ [][NextCorrupt]_vars

\* The exception that left ParseBinary, and with it the constructor of
\* BinaryParser.
NoException == "none"
ExceptionOf(text) ==
    IF text # << >> /\ text[Len(text)] \in { ParseException, RuntimeError }
    THEN text[Len(text)] ELSE NoException

\* BinaryParser::WriteXml(output): what a caller can have written. There is
\* a BinaryParser only if its constructor returned; out is a member of it.
WriteXml_Partial(text) == text
WriteXml(text) == IF ExceptionOf(text) = NoException THEN text ELSE << >>

\* The top-level opcode of the binary is none of DUMP_DRAM, DUMP_SRAM and
\* CASCADE.
InvalidOpcode == csbuffer # << >> /\ m_Opcode(csbuffer) = Invalid

\* C13: parsing a binary whose top-level opcode is none of the three fails
\* with a ParseException, and no text can be written from it.
C13_InvalidOpcodeIsParseException ==
    (InvalidOpcode /\ out # << >>) =>
        /\ ExceptionOf(out) = ParseException
        /\ WriteXml(out) = << >>

\* A cascade with agents was encoded, its opcode overwritten, and parsed.
C13_Witness ==
    /\ InvalidOpcode
    /\ out # << >>
    /\ Len(cascade.agents) >= 1
    /\ ExceptionOf(out) = ParseException


\* The agents and the commands of the Cascade of a binary, as the loops of
\* Parse(parent, value) meet them.
AgentsOf(cstream) ==
    LET value == m_Data(cstream)
    IN { AgentAt(value, GetAgentsArray(value) + agentId * AgentSize)
         : agentId \in 0..(NumAgents(value) - 1) }
CommandTypesOf(cstream) ==
    LET value == m_Data(cstream)
    IN { EnumOf(CommandTypes, value[c + 2])
         : c \in UNION { CommandPointers(value, CommandsBegin(value, q), NumCommands(value, q))
                         : q \in Queues } }
CounterNamesOf(cstream) ==
    LET value == m_Data(cstream)
    IN { EnumOf(CounterNames, value[c + 3])
         : c \in { w \in UNION { CommandPointers(value, CommandsBegin(value, q),
                                                 NumCommands(value, q)) : q \in Queues } :
                     EnumOf(CommandTypes, value[w + 2]) = "WaitForCounter" } }

UnrecognizedAgentType == \E a \in AgentsOf(csbuffer) : a.type = Invalid
UnrecognizedCommandType == Invalid \in CommandTypesOf(csbuffer)
UnrecognizedCounterName == Invalid \in CounterNamesOf(csbuffer)

\* C14: a cascade with an unrecognized agent type, command type or counter
\* name is parsed to a ParseException, the exception of an unrecognized
\* opcode, and no parse ends with an exception of another type.
C14_OneKindOfCorruptInputError ==
    out # << >> =>
        /\ ExceptionOf(out) \in { NoException, ParseException }
        /\ ( /\ m_Opcode(csbuffer) = "CASCADE"
             /\ UnrecognizedAgentType \/ UnrecognizedCommandType \/ UnrecognizedCounterName )
           => ExceptionOf(out) = ParseException

\* The type of a command was overwritten behind two agents, and parsed.
C14_Witness ==
    /\ out # << >>
    /\ m_Opcode(csbuffer) = "CASCADE"
    /\ UnrecognizedCommandType
    /\ ~UnrecognizedAgentType
    /\ Len(cascade.agents) >= 2
    /\ ExceptionOf(out) = ParseException


\* C15: a binary whose version header is not the version of the library is
\* parsed to a ParseException, and no text can be written from it.
C15_VersionMismatchIsCodecError ==
    (out # << >> /\ ~IsValid(csbuffer)) =>
        /\ ExceptionOf(out) = ParseException
        /\ WriteXml(out) = << >>


\* ------------------------------------------------------------------------
\* Generate on graphs whose ops are not listed producers first
\* ------------------------------------------------------------------------
\* The op at i loads the weights of the MceOp listed right behind it.
LoadsWeightsFor(graph, i) ==
    /\ i + 1 <= Len(graph.ops)
    /\ graph.ops[i].kind = "DmaOp"
    /\ graph.bufs[graph.ops[i].output].m_Format = "WEIGHT"
    /\ graph.ops[i + 1].kind = "MceOp"

\* The graph with the first MceOp listed in GetOps() before the DmaOp that
\* loads its weights: the loop of Generate meets the MceOp when no agent is
\* recorded for the producer of its weights.
WeightsAfterMce(graph) ==
    LET i == SetMin({ k \in DOMAIN graph.ops : LoadsWeightsFor(graph, k) })
    IN [graph EXCEPT !.ops = [k \in DOMAIN graph.ops |->
                                 IF k = i THEN graph.ops[i + 1]
                                 ELSE IF k = i + 1 THEN graph.ops[i] ELSE graph.ops[k]]]

DanglingGraphs ==
    { WeightsAfterMce(g) :
        g \in { h \in SmallGraphs : \E k \in DOMAIN h.ops : LoadsWeightsFor(h, k) } }

InitDangling == Constructed(DanglingGraphs)

SpecDangling == InitDangling /\ [][Next]_vars

\* The op that the loop of Generate has just visited is an MceOp, and the
\* producer of its weights is listed behind it.
DanglingProducerMet ==
    /\ currentOp > 1
    /\ m_MergedOpGraph.ops[currentOp - 1].kind = "MceOp"
    /\ GetSingleProducer(m_MergedOpGraph, m_MergedOpGraph.ops[currentOp - 1].inputs[2])
         > currentOp - 1

\* The dependencies of the agent of the op just visited that point at
\* agent 0.
EdgesToAgentZero ==
    IF (currentOp - 1) \in DOMAIN m_OpToAgentIdMapping
    THEN LET mceS == m_OpToAgentIdMapping[currentOp - 1]
         IN { i \in DOMAIN AgentOf(mceS).deps.readDependencies :
                AgentOf(mceS).deps.readDependencies[i].relativeAgentId = mceS }
    ELSE {}

\* C16: when an MceOp is visited whose weights have a producer without a
\* recorded agent, Generate fails and the agent of the MceOp gets no
\* dependency on an agent standing in for that producer.
C16_DanglingDependencyIsFatal ==
    DanglingProducerMet =>
        /\ Failed
        /\ Cardinality(EdgesToAgentZero) <= 1


\* ------------------------------------------------------------------------
\* Generate on graphs with an op of no stripes
\* ------------------------------------------------------------------------
\* The graph with no stripe across the width of the MceOp or PleOp at i:
\* utils::GetNumStripesTotal of its agent is zero.
ZeroStripes(graph, i) == [graph EXCEPT !.ops[i].numStripes.width = 0]

ZeroStripeGraphs ==
    UNION { { ZeroStripes(g, i) :
                i \in { k \in DOMAIN g.ops : g.ops[k].kind \in {"MceOp", "PleOp"} } }
            : g \in RunGraphs }

InitZeroStripes == Constructed(ZeroStripeGraphs)

SpecZeroStripes == InitZeroStripes /\ [][Next]_vars

HasZeroStripeAgent == \E a \in Agents : AgentOf(a).agent.numStripesTotal = 0

C18_EmptyGraphIsRejected ==
    Len(m_MergedOpGraph.ops) = 0 =>
        /\ status # "generated"
        /\ result.kind # "returned"
        /\ m_CommandStream = << >>


\* C19: the second run of Generate on a graph, with the same settings, ends
\* with the command stream and the result of the first.
C19_RunsAreIdentical ==
    (previous.run /\ Ended) =>
        /\ m_CommandStream = previous.commandStream
        /\ result = previous.result


\* ------------------------------------------------------------------------
\* Properties of the binary that AddCascade writes
\* ------------------------------------------------------------------------
\* The agent that the span of agents right behind the header of the CASCADE
\* command holds at index i, as CascadingTests.cpp reads it.
AgentBehindHeader(cstream, i) == AgentAt(m_Data(cstream), CascadeHeaderSize + i * AgentSize)

IsFenceOp(graph, o) ==
    /\ GetOutput(graph, o) # Null
    /\ IsFullTensor(graph.bufs[GetOutput(graph, o)])
    /\ ~(graph.ops[o].kind = "DmaOp" /\ graph.bufs[GetOutput(graph, o)].m_Location = "Sram")

\* The kind of agent that takes a fence when op o is visited: the streamer of
\* a load from DRAM, or the loader of the PLE kernel.
FenceTaker(graph, o) ==
    IF graph.ops[o].kind = "DmaOp" /\ graph.bufs[graph.ops[o].inputs[1]].m_Location = "Dram"
    THEN IF graph.bufs[graph.ops[o].inputs[1]].m_Format = "WEIGHT"
         THEN "WGT_STREAMER" ELSE "IFM_STREAMER"
    ELSE IF graph.ops[o].kind \in {"MceOp", "PleOp"} /\ LoadsKernel(graph, o)
    THEN "PLE_LOADER" ELSE "none"

\* The id of that agent: the loader is pushed just before the scheduler of
\* the op.
FenceTakerId(graph, o) ==
    IF FenceTaker(graph, o) = "PLE_LOADER"
    THEN m_OpToAgentIdMapping[o] - 1 ELSE m_OpToAgentIdMapping[o]

\* The last op before o that set the fences, Null when there is none.
LastFenceBefore(graph, o) ==
    IF \E f \in 1..(o - 1) : IsFenceOp(graph, f)
    THEN SetMax({ f \in 1..(o - 1) : IsFenceOp(graph, f) }) ELSE Null

\* Op o creates the first agent of its kind since the fences were last set.
FirstSinceFence(graph, o) ==
    \A o2 \in (LastFenceBefore(graph, o) + 1)..(o - 1) :
        FenceTaker(graph, o2) # FenceTaker(graph, o)

\* Agent a has a read dependency on agent p.
HasRawEdge(a, p) ==
    \E i \in 1..Len(AgentOf(a).deps.readDependencies) :
        AgentOf(a).deps.readDependencies[i].relativeAgentId = CastRelativeAgentId(a - p)

\* The visited ops whose agent comes after a fence op.
BehindFence ==
    { o \in Visited : /\ FenceTaker(m_MergedOpGraph, o) # "none"
                      /\ LastFenceBefore(m_MergedOpGraph, o) # Null }

TwoInputSection(ifm, first, skip, second, ofm) ==
    [ops |-> << MkOp("DmaOp", << 1 >>, 2, 1, NoLayer),
                MkOp("PleOp", << 2 >>, 3, first.n, first),
                MkOp("DmaOp", << 1 >>, 4, 1, NoLayer),
                MkOp("PleOp", << 3, 4 >>, 5, second.n, second),
                MkOp("DmaOp", << 5 >>, 6, 1, NoLayer) >>,
     bufs |-> << MkBuffer("Dram", "Input", "NHWCB", 1),
                 MkBuffer("Sram", "None", "NHWCB", ifm),
                 MkBuffer("Sram", "None", "NHWCB", first.n),
                 MkBuffer("Sram", "None", "NHWCB", skip),
                 MkBuffer("Sram", "None", "NHWCB", ofm),
                 MkBuffer("Dram", "Output", "NHWCB", 1) >>]

TwoInputGraphs ==
    { TwoInputSection(ifm, first, skip, second, ofm) :
        ifm \in 1..MaxStripes, skip \in 1..MaxStripes, ofm \in 1..MaxStripes,
        first \in Layers({"ple"}, 1..MaxStripes, BOOLEAN, {"NONE"}, {1}),
        second \in Layers({"ple"}, 1..MaxStripes, BOOLEAN, {"NONE"}, {1}) }

InitTwoInputs == Constructed(TwoInputGraphs)

SpecTwoInputs == InitTwoInputs /\ [][Next]_vars

\* The id of the agent that takes a fence at op o, from the agents created
\* before it.
TakerIdOf(graph, o) ==
    IF FenceTaker(graph, o) = "PLE_LOADER"
    THEN AgentsCreatedBefore(graph, o) - 1 ELSE AgentsCreatedBefore(graph, o)

\* The visited ops whose agent took a fence.
TookFence ==
    { o \in BehindFence : /\ FirstSinceFence(m_MergedOpGraph, o)
                          /\ TakerIdOf(m_MergedOpGraph, o) < Len(m_CommandStreamAgents) }

\* What the rule table gives for the fence edge of the agent created at op o.
FenceEdgeOf(o) ==
    LET fence == LastFenceBefore(m_MergedOpGraph, o)
        a == TakerIdOf(m_MergedOpGraph, o)
        p == m_OpToAgentIdMapping[fence]
    IN FillConsumerAgentDependency(NewDependency(a - p), AgentOf(a).agent.type, a,
                                   AgentOf(p).agent.type, p, fence,
                                   m_CommandStreamAgents, m_MergedOpGraph)

\* The edge of a whole-operation barrier between the agent created at op o and
\* the agent of its fence.
BarrierOf(o) ==
    LET a == TakerIdOf(m_MergedOpGraph, o)
        p == m_OpToAgentIdMapping[LastFenceBefore(m_MergedOpGraph, o)]
    IN [relativeAgentId |-> CastRelativeAgentId(a - p),
        outerRatio |-> Ratio(AgentOf(p).agent.numStripesTotal, AgentOf(a).agent.numStripesTotal),
        innerRatio |-> Ratio(AgentOf(p).agent.numStripesTotal, 1),
        boundary |-> 0]

\* C22: for every agent that took a fence, whatever the type of the agent of
\* the fence op, the rule table fills the edge without failing, and the edge
\* stored is the whole-operation barrier: outer ratio of the consumer's
\* stripes to the producer's stripes, inner ratio of one consumer stripe to
\* all producer stripes, boundary 0.
C22_FenceEdgeIsBarrier ==
    \A o \in TookFence :
        /\ ~FenceEdgeOf(o).trap
        /\ ~FenceEdgeOf(o).assertFailed
        /\ ~Failed =>
              \E i \in 1..Len(AgentOf(TakerIdOf(m_MergedOpGraph, o)).deps.readDependencies) :
                  AgentOf(TakerIdOf(m_MergedOpGraph, o)).deps.readDependencies[i] = BarrierOf(o)

\* ------------------------------------------------------------------------
\* Properties of the rule tables
\* ------------------------------------------------------------------------
\* A ratio with self and other exchanged.
Mirrored(ratio) == Ratio(ratio.self, ratio.other)

\* The read dependencies of agent c on agent p, and the write and schedule
\* dependencies that agent p has got for agent c.
RawEdges(c, p) ==
    { AgentOf(c).deps.readDependencies[i] : i \in
        { j \in 1..Len(AgentOf(c).deps.readDependencies) :
            AgentOf(c).deps.readDependencies[j].relativeAgentId = CastRelativeAgentId(c - p) } }

ProducerEdges(c, p, kind) ==
    { AgentOf(p).deps[kind][i] : i \in
        { j \in 1..Len(AgentOf(p).deps[kind]) :
            AgentOf(p).deps[kind][j].relativeAgentId = CastRelativeAgentId(c - p) } }

\* C23: where a consumer has a read dependency on a producer and the producer
\* a write or schedule dependency for that consumer, the outer and the inner
\* ratio of the producer's edge are those of the consumer's edge with self
\* and other exchanged.
C23_ProducerEdgesAreMirrored ==
    \A c, p \in Agents :
        p < c =>
            \A raw \in RawEdges(c, p) :
                \A e \in ProducerEdges(c, p, "writeDependencies")
                            \cup ProducerEdges(c, p, "scheduleDependencies") :
                    /\ e.outerRatio = Mirrored(raw.outerRatio)
                    /\ e.innerRatio = Mirrored(raw.innerRatio)

\* ------------------------------------------------------------------------
\* Generate on sections whose stripe counts do not divide evenly
\* ------------------------------------------------------------------------
\* One more stripe than the other graphs have, so that 3 stripes meet 2.
UnevenStripes == 1..(MaxStripes + 1)

\* A section of one layer whose PLE op has its own number of stripes.
WithPleStripes(graph, n) ==
    [graph EXCEPT !.ops =
        [o \in DOMAIN graph.ops |->
            IF graph.ops[o].kind = "PleOp"
            THEN [graph.ops[o] EXCEPT !.numStripes.height = n]
            ELSE graph.ops[o]]]

UnevenGraphs ==
    { WithPleStripes(MkGraph(<< MkSection(ifm, << l >>, ofm) >>), ple) :
        ifm \in UnevenStripes, ofm \in UnevenStripes, ple \in UnevenStripes,
        l \in Layers({"mce"}, UnevenStripes, {FALSE}, {"NONE"}, {1, FilterHeight})
              \cup Layers({"ple"}, {1}, {FALSE}, {"NONE"}, {1}) }

InitUneven == Constructed(UnevenGraphs)

SpecUneven == InitUneven /\ [][Next]_vars

\* The stripe counts of two agents do not divide evenly.
Uneven(c, p) ==
    /\ AgentOf(c).agent.numStripesTotal % AgentOf(p).agent.numStripesTotal # 0
    /\ AgentOf(p).agent.numStripesTotal % AgentOf(c).agent.numStripesTotal # 0

\* The inner ratio that gives the agent with fewer stripes one stripe and the
\* other agent the quotient of the stripe counts, rounded up.
RoundedUp(c, p) ==
    LET cN == AgentOf(c).agent.numStripesTotal
        pN == AgentOf(p).agent.numStripesTotal
    IN IF pN > cN THEN Ratio(DivRoundUp(pN, cN), 1) ELSE Ratio(1, DivRoundUp(cN, pN))

\* C24 as stated: a read dependency between agents whose stripe counts do
\* not divide evenly has boundary 1 and the quotient rounded up as its inner
\* ratio.
C24_UnevenIsRoundedUp ==
    \A c, p \in Agents :
        (p < c /\ Uneven(c, p)) =>
            \A raw \in RawEdges(c, p) :
                raw.boundary = 1 /\ raw.innerRatio = RoundedUp(c, p)

\* ------------------------------------------------------------------------
\* Properties of the write dependencies of the PLE scheduler
\* ------------------------------------------------------------------------
\* The PLE scheduler agents with a write dependency for a later agent of one
\* stripe, as pairs << producer, consumer >>.
PleWriteEdgesForOneStripe ==
    { e \in Agents \X Agents :
        /\ e[1] < e[2]
        /\ AgentOf(e[1]).agent.type = "PLE_SCHEDULER"
        /\ AgentOf(e[2]).agent.numStripesTotal = 1
        /\ ProducerEdges(e[2], e[1], "writeDependencies") # {} }

\* C25 as stated: no PLE scheduler agent has a write dependency for a
\* consumer agent whose total number of stripes is 1.
C25_NoWriteEdgeForOneStripe == PleWriteEdgesForOneStripe = {}

\* C25 amended: no PLE scheduler agent has a write dependency for an MCE
\* scheduler agent whose total number of stripes is 1; for an OFM streamer
\* of one stripe the write dependency is stored.
C25_NoWriteEdgeForOneStripeMce ==
    \A e \in PleWriteEdgesForOneStripe : AgentOf(e[2]).agent.type # "MCE_SCHEDULER"

\* An MCE scheduler of one stripe has taken the output of a PLE scheduler of
\* more stripes as its input, and the PLE scheduler has no write dependency.
C25_Witness ==
    /\ status = "lifetimes"
    /\ \E p, c \in Agents :
          /\ p < c
          /\ AgentOf(p).agent.type = "PLE_SCHEDULER"
          /\ AgentOf(p).agent.numStripesTotal > 1
          /\ AgentOf(c).agent.type = "MCE_SCHEDULER"
          /\ AgentOf(c).agent.numStripesTotal = 1
          /\ HasRawEdge(c, p)
          /\ AgentOf(p).deps.writeDependencies = << >>

\* ------------------------------------------------------------------------
\* Pairs of agent types without a rule
\* ------------------------------------------------------------------------
\* The rule table has no rule for the fence edge of the agent created at op
\* o: it returns the dependency with the ratios it was given.
HasNoRule(o) == FenceEdgeOf(o).dep.outerRatio = Ratio(0, 0)

\* Generate ended with an error of the construction: an exception or a
\* failed assert.
ConstructionError == status \in {"failed", "aborted"}

\* The agents with a dependency whose outer ratio no rule has set.
UnsetEdges ==
    { a \in Agents :
        \E kind \in DependencyKinds :
            \E i \in 1..Len(AgentOf(a).deps[kind]) :
                AgentOf(a).deps[kind][i].outerRatio = Ratio(0, 0) }

\* C26: when an agent asks for a dependency on an agent of a type that the
\* rule table has no rule for, Generate ends with a construction error, and
\* no dependency whose ratios no rule has set is stored.
C26_NoRuleIsAnError ==
    /\ \A o \in TookFence : HasNoRule(o) => ConstructionError
    /\ UnsetEdges = {}

\* ------------------------------------------------------------------------
\* The weight streamer behind a PLE scheduler
\* ------------------------------------------------------------------------
\* Op o ends a section: it stores the result of the section to DRAM.
StoresToDram(graph, o) ==
    /\ graph.ops[o].kind = "DmaOp"
    /\ graph.bufs[GetOutput(graph, o)].m_Location = "Dram"

\* The PLE ops before op o in the section of o.
PleOpsBefore(graph, o) ==
    { p \in 1..(o - 1) : /\ graph.ops[p].kind = "PleOp"
                         /\ \A d \in p..(o - 1) : ~StoresToDram(graph, d) }

\* The visited loads of weights that follow a PLE op in their section.
WeightLoadsBehindPle ==
    { o \in Visited : /\ FenceTaker(m_MergedOpGraph, o) = "WGT_STREAMER"
                      /\ PleOpsBefore(m_MergedOpGraph, o) # {} }

\* C27: every weight streamer that follows a PLE scheduler in its section
\* has a read dependency on that PLE scheduler, the last before it.
C27_WeightStreamerWaitsForPle ==
    ~Failed =>
        \A o \in WeightLoadsBehindPle :
            HasRawEdge(m_OpToAgentIdMapping[o],
                       m_OpToAgentIdMapping[SetMax(PleOpsBefore(m_MergedOpGraph, o))])

\* ------------------------------------------------------------------------
\* The DMA command ids
\* ------------------------------------------------------------------------
\* The commands of a queue that move data, without the waits.
DmaCommands(queue) == SelectSeq(scheduledCommands[queue], IsDmaCommand)

\* C28: the extra data holds one entry for each load of the read queue, in
\* the order of the queue, and then one for each store of the write queue;
\* the k-th load (k from 0; IFM, weight and PLE code loads counted together)
\* has the DMA command id k mod 4 and the k-th store the id 4 + (k mod 4);
\* the waits of the queues get no entry and no id.
C28_DmaCmdIdsAreRoundRobin ==
    status = "generated" =>
        LET rd == DmaCommands("DmaRd")
            wr == DmaCommands("DmaWr")
        IN /\ Len(dmaExtraData) = Len(rd) + Len(wr)
           /\ \A k \in 1..Len(rd) :
                 /\ dmaExtraData[k].agentId = rd[k].agentId
                 /\ dmaExtraData[k].stripeId = rd[k].stripeId
                 /\ dmaExtraData[k].dmaCmdId = (k - 1) % 4
           /\ \A k \in 1..Len(wr) :
                 /\ dmaExtraData[Len(rd) + k].agentId = wr[k].agentId
                 /\ dmaExtraData[Len(rd) + k].stripeId = wr[k].stripeId
                 /\ dmaExtraData[Len(rd) + k].dmaCmdId = 4 + ((k - 1) % 4)

\* Both queues hold more than four work commands, the read queue loads of
\* all three kinds and a wait between two loads.
C28_Witness ==
    /\ status = "generated"
    /\ Len(DmaCommands("DmaRd")) > 4
    /\ Len(DmaCommands("DmaWr")) > 4
    /\ \A t \in {"LoadIfmStripe", "LoadWgtStripe", "LoadPleCode"} :
          \E k \in 1..Len(scheduledCommands["DmaRd"]) : scheduledCommands["DmaRd"][k].type = t
    /\ \E i, j, k \in 1..Len(scheduledCommands["DmaRd"]) :
          /\ i < j /\ j < k
          /\ IsDmaCommand(scheduledCommands["DmaRd"][i])
          /\ ~IsDmaCommand(scheduledCommands["DmaRd"][j])
          /\ IsDmaCommand(scheduledCommands["DmaRd"][k])

\* ------------------------------------------------------------------------
\* The kernel driver: the interrupt handlers
\* ------------------------------------------------------------------------
\* A message of the firmware in the mailbox; "UNREADABLE" stands for a queue
\* that ethosn_read_message fails to read.
MessageTypes ==
    {"FW_HW_CAPS_RESPONSE", "INFERENCE_RESPONSE", "PONG", "TEXT", "CONFIGURE_PROFILING_ACK",
     "ERROR_RESPONSE", "UNSUPPORTED", "UNREADABLE"}

Message(type, rspStatus) == [type |-> type, status |-> rspStatus, user_argument |-> 1]

Messages ==
    { Message(t, "OK") : t \in MessageTypes } \cup { Message("INFERENCE_RESPONSE", "ERROR") }

\* update_busy_core: the core clears its bit of current_busy_cores.
update_busy_core(c) ==
    LET core_id == 0
        cleared == IF core_id \notin c.current_busy_cores
                   THEN [c EXCEPT !.status_mask = @ \cup {"WRONG_CORE_SCHEDULE"}]
                   ELSE [c EXCEPT !.current_busy_cores = @ \ {core_id}]
    IN IF cleared.current_busy_cores # {}
       THEN [cleared EXCEPT !.status_mask = @ \cup {"CONCURRENT_INFERENCE_DETECTED"}]
       ELSE cleared

\* ethosn_set_inference_done: the inference gets its status and the core is
\* free for the next one.
ethosn_set_inference_done(c, inference, inferenceStatus) ==
    [c EXCEPT !.inference_status = inferenceStatus,
              !.current_inference = IF @ = inference THEN Null ELSE @]

\* ethosn_reset_and_start_ethosn: the firmware is booted again with an empty
\* mailbox.
ethosn_reset_and_start_ethosn(c) == [c EXCEPT !.mailbox = << >>]

\* handle_message(core): the core after the call and the value returned.
\* allocated: devm_kzalloc has returned memory.
handle_message(c, allocated) ==
    IF c.mailbox = << >> THEN [core |-> c, ret |-> 0]
    ELSE IF Head(c.mailbox).type = "UNREADABLE" THEN [core |-> c, ret |-> 0 - EFAULT]
    ELSE LET header == Head(c.mailbox)
             read == [c EXCEPT !.mailbox = Tail(@)]
         IN CASE header.type = "FW_HW_CAPS_RESPONSE" ->
                   IF allocated THEN [core |-> [read EXCEPT !.fw_and_hw_caps = TRUE], ret |-> 1]
                   ELSE [core |-> [read EXCEPT !.fw_and_hw_caps = FALSE], ret |-> 0 - ENOMEM]
              [] header.type = "INFERENCE_RESPONSE" ->
                   [core |-> ethosn_set_inference_done(
                                 update_busy_core(read), header.user_argument,
                                 IF header.status = "OK" THEN "COMPLETED" ELSE "ERROR"),
                    ret |-> 1]
              [] header.type = "PONG" ->
                   [core |-> [read EXCEPT !.num_pongs_received = @ + 1], ret |-> 1]
              [] header.type = "TEXT" ->
                   [core |-> [read EXCEPT !.firmware_log = @ + 1], ret |-> 1]
              [] header.type = "CONFIGURE_PROFILING_ACK" ->
                   [core |-> [read EXCEPT !.profiling_acks = @ + 1], ret |-> 1]
              [] header.type = "ERROR_RESPONSE" -> [core |-> read, ret |-> 0 - EFAULT]
              [] OTHER -> [core |-> read, ret |-> 1]

\* Variant: the status word is stored, not or-ed.
atomic_or_Stored(i, v) == i

\* atomic_or(i, v): the value of *v afterwards.
atomic_or(i, v) == v \cup i

\* atomic_xchg(v, new): the value returned and the value of *v afterwards.
atomic_xchg(v, new) == [old |-> v, value |-> new]

\* What the driver leaves alone: the generator and its command streams.
genIdleVars == << m_MergedOpGraph, assertsEnabled, genVars, hwVars, codecVars, m_DumpRam,
                 emitVars, previous >>

\* The hardware sets a bit of its status register and raises the interrupt.
RaiseInterrupt ==
    /\ irq.budget > 0
    /\ \E b \in StatusBits \ irq.DL1_IRQ_STATUS :
          irq' = [irq EXCEPT !.DL1_IRQ_STATUS = @ \cup {b}, !.budget = @ - 1]
    /\ UNCHANGED core
    /\ UNCHANGED genIdleVars

\* The interrupt controller calls ethosn_irq_top for one of its IRQ numbers.
TopInvoked ==
    /\ irq.DL1_IRQ_STATUS # {}
    /\ \E l \in IrqLines :
          /\ irq.top[l].pc = "idle"
          /\ irq' = [irq EXCEPT !.top[l].pc = "read"]
    /\ UNCHANGED core
    /\ UNCHANGED genIdleVars

\* status.word = ethosn_read_top_reg(core, DL1_RP, DL1_IRQ_STATUS)
TopRead ==
    /\ \E l \in IrqLines :
          /\ irq.top[l].pc = "read"
          /\ irq' = [irq EXCEPT !.top[l] = [pc |-> "save", status |-> irq.DL1_IRQ_STATUS]]
    /\ UNCHANGED core
    /\ UNCHANGED genIdleVars

\* atomic_or(status.word, &core->irq_status), and the return of IRQ_NONE for
\* a status word of zero.
TopSave ==
    /\ UNCHANGED genIdleVars
    /\ \E l \in IrqLines :
           /\ irq.top[l].pc = "save"
           /\ core' = [core EXCEPT !.irq_status = atomic_or(irq.top[l].status, @)]
           /\ irq' = [irq EXCEPT !.owed = @ \cup irq.top[l].status,
                                 !.top[l] = IF irq.top[l].status = {} THEN TopIdle
                                            ELSE [@ EXCEPT !.pc = "clear"]]

\* ethosn_write_top_reg(core, DL1_RP, DL1_CLRIRQ_EXT, clear.word)
TopClear ==
    /\ \E l \in IrqLines :
          /\ irq.top[l].pc = "clear"
          /\ irq' = [irq EXCEPT !.DL1_IRQ_STATUS = @ \ (irq.top[l].status \cap ClearableBits),
                                !.top[l].pc = "queue"]
    /\ UNCHANGED core
    /\ UNCHANGED genIdleVars

\* queue_work(core->irq_wq, &core->irq_work) and the return of IRQ_HANDLED.
TopQueue ==
    /\ \E l \in IrqLines :
          /\ irq.top[l].pc = "queue"
          /\ irq' = [irq EXCEPT !.work = TRUE, !.top[l] = TopIdle]
    /\ UNCHANGED core
    /\ UNCHANGED genIdleVars

ethosn_irq_top == TopInvoked \/ TopRead \/ TopSave \/ TopClear \/ TopQueue

\* The work queue calls ethosn_irq_bottom, which takes the mutex of the core
\* or returns when interrupted.
BottomLock ==
    /\ irq.work
    /\ irq.bottom.pc = "idle"
    /\ \E locked \in BOOLEAN :
          IF locked
          THEN /\ core' = [core EXCEPT !.mutex = TRUE]
               /\ irq' = [irq EXCEPT !.work = FALSE,
                                     !.bottom = [BottomEntered EXCEPT !.pc = "init_done"]]
          ELSE /\ irq' = [irq EXCEPT !.work = FALSE, !.bottom = BottomEntered]
               /\ UNCHANGED core
    /\ UNCHANGED genIdleVars

\* if (atomic_read(&core->init_done) == 0) goto end;
BottomInitDone ==
    /\ irq.bottom.pc = "init_done"
    /\ irq' = [irq EXCEPT !.bottom.pc = IF core.init_done = 0 THEN "end" ELSE "handle"]
    /\ UNCHANGED core
    /\ UNCHANGED genIdleVars

\* One turn of the loop over the messages of the mailbox.
BottomHandle ==
    /\ irq.bottom.pc = "handle"
    /\ \E allocated \in BOOLEAN :
          LET handled == handle_message(core, allocated)
              num == irq.bottom.num_messages_handled + 1
              failed == handled.ret < 0
          IN /\ core' = handled.core
             /\ irq' = [irq EXCEPT
                          !.work = IF num > MaxMessagesHandled THEN TRUE ELSE @,
                          !.bottom = [@ EXCEPT
                              !.ret = handled.ret,
                              !.num_messages_handled = num,
                              !.failed = failed,
                              !.running = failed /\ core.firmware_running,
                              !.inference = IF failed THEN core.current_inference ELSE Null,
                              !.pc = IF num > MaxMessagesHandled THEN "end"
                                     ELSE IF handled.ret > 0 THEN "handle" ELSE "xchg"]]
    /\ UNCHANGED genIdleVars

\* status.word = atomic_xchg(&core->irq_status, 0)
BottomReadAndClear ==
    /\ irq.bottom.pc = "xchg"
    /\ LET x == atomic_xchg(core.irq_status, {})
       IN /\ core' = [core EXCEPT !.irq_status = x.value]
          /\ irq' = [irq EXCEPT !.owed = @ \ x.old,
                                !.bottom.status = x.old,
                                !.bottom.pc = "check"]
    /\ UNCHANGED genIdleVars

\* The reset of the firmware after a mailbox error or an error interrupt.
BottomReset ==
    /\ irq.bottom.pc = "check"
    /\ LET error_status == irq.bottom.status \cap ErrorBits # {}
           resets == (irq.bottom.ret < 0 \/ error_status) /\ core.firmware_running
           restarted == ethosn_reset_and_start_ethosn(core)
       IN /\ core' = IF ~resets THEN core
                     ELSE IF core.current_inference # Null
                     THEN ethosn_set_inference_done(restarted, core.current_inference, "ERROR")
                     ELSE restarted
          /\ irq' = [irq EXCEPT !.bottom.reset = resets, !.bottom.pc = "end"]
    /\ UNCHANGED genIdleVars

\* mutex_unlock(&core->mutex)
BottomUnlock ==
    /\ irq.bottom.pc = "end"
    /\ core' = [core EXCEPT !.mutex = FALSE]
    /\ irq' = [irq EXCEPT !.bottom.pc = "idle"]
    /\ UNCHANGED genIdleVars

ethosn_irq_bottom ==
    BottomLock \/ BottomInitDone \/ BottomHandle \/ BottomReadAndClear \/ BottomReset
    \/ BottomUnlock

\* The generator is not in use.
GeneratorNotConstructed ==
    /\ m_MergedOpGraph = MkGraph(<< >>)
    /\ assertsEnabled = FALSE
    /\ m_DumpRam = FALSE
    /\ m_CommandStream = << >>
    /\ bufferManagerCommandStream = << >>
    /\ g_Logger = << >>
    /\ result = NoResult
    /\ previous = NoOutcome
    /\ m_CommandStreamAgents = << >>
    /\ m_OpToAgentIdMapping = << >>
    /\ m_PleKernelToPleLoaderAgentIdMapping = << >>
    /\ m_FenceOpForIfmS = Null
    /\ m_FenceOpForPleL = Null
    /\ m_FenceOpForWgtS = Null
    /\ m_DramBufToBufIdMapping = << >>
    /\ m_BufferManager = << >>
    /\ status = "running"
    /\ currentOp = 1
    /\ scheduledCommands = [q \in Queues |-> << >>]
    /\ dmaExtraData = << >>
    /\ pc = [q \in Queues |-> 0]
    /\ counters = [q \in Queues |-> 0]
    /\ cascade = NoCascade
    /\ csbuffer = << >>
    /\ out = << >>

\* The longest row of pongs in the mailbox, and the most interrupts of the
\* hardware.
MaxBacklog == 10
MaxInterrupts == 2

Pongs(k) == [i \in 1..k |-> Message("PONG", "OK")]

\* The firmware has filled the mailbox with up to MaxBacklog pongs and at
\* most one other message behind them, and raises one interrupt.
Backlogged ==
    /\ \E k \in 0..MaxBacklog, last \in {<< >>} \cup { << m >> : m \in Messages } :
       \E firmware_running \in BOOLEAN :
       \E current_inference \in (IF firmware_running THEN {Null, 1} ELSE {Null}) :
          core = CoreWith(Pongs(k) \o last, 1, firmware_running, current_inference)
    /\ irq = IrqWith(1)

\* The hardware raises up to MaxInterrupts interrupts while the mailbox holds
\* one message at most; the core may not be initialised yet.
Interrupted ==
    /\ \E mailbox \in {<< >>, Pongs(1), << Message("ERROR_RESPONSE", "OK") >>} :
       \E init_done \in {0, 1}, firmware_running \in BOOLEAN :
          core = CoreWith(mailbox, init_done, firmware_running, Null)
    /\ irq = IrqWith(MaxInterrupts)

InitIrq == GeneratorNotConstructed /\ (Backlogged \/ Interrupted)

NextIrq == RaiseInterrupt \/ ethosn_irq_top \/ ethosn_irq_bottom

SpecIrq == InitIrq /\ [][NextIrq]_vars

\* ------------------------------------------------------------------------
\* Properties of the interrupt handlers
\* ------------------------------------------------------------------------
\* The call of ethosn_irq_bottom has come to its end, or has returned.
BottomAtEnd == irq.bottom.pc \in {"end", "idle"}

\* C29: when handle_message has returned an error in a call of
\* ethosn_irq_bottom, then at the end of that call the firmware has been
\* reset if it was running, and the inference that was current, if any, has
\* the status of an error.
C29_MailboxErrorResetsFirmware ==
    (BottomAtEnd /\ irq.bottom.failed /\ irq.bottom.running) =>
        /\ irq.bottom.reset
        /\ irq.bottom.inference # Null => core.inference_status = "ERROR"

\* C30: whatever the interleaving of ethosn_irq_top and ethosn_irq_bottom,
\* the bits of core->irq_status are exactly the bits the top half has saved
\* and no call of the bottom half has been given: no saved bit is cleared
\* without being returned by the atomic_xchg of a call of the bottom half, and
\* no bit is returned to a second call without having been saved again.
C30_SavedBitsAreReturnedOnce == core.irq_status = irq.owed

\* A call of the bottom half has been given bits, and before it ended the
\* top half has saved bits again while a second top half is about to save.
C30_Witness ==
    /\ irq.bottom.pc \in {"check", "end"}
    /\ irq.bottom.status # {}
    /\ core.irq_status # {}
    /\ \E l \in IrqLines : irq.top[l].pc = "save" /\ irq.top[l].status # {}

====
